---- MODULE Spec2Model ----
(***************************************************************************)
(* Resilience primitives of the CSV services:                              *)
(*   - CircuitBreaker        (hono-csv-service/src/rpc/grpc-client.ts)     *)
(*   - InMemoryRateLimiter / RedisRateLimiter                              *)
(*                  (both services: src/middleware/rate-limit.ts)          *)
(* Time is the value of Date.now(), one shared clock `now`.                *)
(***************************************************************************)
EXTENDS Integers, Sequences, FiniteSets, TLC

\* ------------------------------------------------------------------ bounds
\* Largest clock value explored for the breaker, and for the limiter.
MaxTime == 5
MaxClock == 3
\* CircuitBreakerOptions.recoveryTimeout, in clock units (the pool passes
\* 30000 ms; the class takes any value).
RecoveryTimeout == 2
\* Cap on successCount, which the code increments without bound.
MaxSuccess == 4

\* RATE_LIMIT_CONFIG.maxRequests and .windowMs (read from the environment;
\* the defaults are 100 and 60000 ms).
MaxRequests == 2
WindowMs == 2
\* Cap on the admissions of one key recorded inside one window (resets let
\* a key be admitted again and again at the same instant).
MaxLog == 3
\* Whole seconds the clock may jump ahead when the backends are compared
\* (the shared key's expiry is counted in seconds).
MaxSeconds == 2

\* Time outside a request is observed every WaitMs milliseconds, and a
\* Consul leader check is answered within MaxLatency such observations.
WaitMs == 1000
MaxLatency == 1

\* -------------------------------------------------------- program constants
\* ConsulClient.maxReconnectAttempts, and the base and the cap of the delay
\* before a reconnection (ms).
maxReconnectAttempts == 5
BackoffBase == 1000
BackoffCap == 30000
\* The delay of gracefulShutdown's forced exit (ms).
ForceExitMs == 30000

\* failureThreshold passed by GrpcClientPool.createConnection.
FailureThreshold == 5
\* The literal 3 of onSuccess: successes needed to close from HalfOpen.
HalfOpenSuccessThreshold == 3

\* Milliseconds per second: expire() takes seconds, Date.now() gives ms.
MsPerSec == 1000

\* Cap on the admissions of one key that are recorded when checks race.
MaxScores == MaxRequests + Cardinality({"p1", "p2"})

\* Rate-limit keys, and the requests being checked concurrently.
Keys == {"k1", "k2"}
Procs == {"p1", "p2"}

\* Concurrent callers of execute on one breaker.
Callers == {"c1", "c2"}

\* CircuitBreakerState
Closed == "closed"
Open == "open"
HalfOpen == "half-open"

VARIABLES
  now,      \* Date.now()
  cb,       \* the CircuitBreaker's fields
  pc,       \* per caller: "idle", or "fn" while awaiting fn() inside execute
  last,     \* the last operation performed and what its caller observed
  hist,     \* history of the breaker's run (not program state)
  pool,     \* GrpcClientPool.connections for the one target: whether it
            \* holds a connection, and whether that connection's channel
            \* reports READY; cb is that connection's circuitBreaker
  redisEnv,   \* process.env.REDIS_ENABLED === 'true'
  redisState, \* RedisRateLimiter: "disabled" (enabled = false from the start),
              \* "pending" (enabled, this.redis not yet set), "ready",
              \* "failed" (initializeRedis caught an error: enabled = false)
  requests, \* InMemoryRateLimiter.requests: Map<string, number[]>
  zset,     \* the shared store: per key the scores of its sorted set
  ttl,      \* the shared store: per key the time its expiry is due, or NoTtl
  rp,       \* per request: where its RedisRateLimiter.checkLimit stands
  res,      \* the limiter operation that the last step completed, if any,
            \* and the decision it returned
  lhist,    \* history of the in-memory limiter's run (not program state)
  http,     \* the last request that went through a rate-limit middleware:
            \* the service, the decision, the response and whether the
            \* downstream handler ran
  buffer,   \* the uploaded file: its bytes, one character each
  imp,      \* what the ingestion of buffer came to
  scan,     \* parseLine's loop over one line: the line, pattern.lastIndex,
            \* the values pushed so far, whether the loop has ended
  consul,   \* the ConsulClient: its reconnectAttempts, the leader checks
            \* awaiting their callback, the retry timers set and its clock
  proc      \* the service process: which service, what it has created,
            \* where gracefulShutdown stands, the forced-exit timer and the
            \* exit code

breakerVars == <<cb, pc, last, hist, pool>>
limiterVars == <<redisEnv, redisState, requests, zset, ttl, rp, res, lhist>>
ingestVars == <<http, buffer, imp, scan>>
lifecycleVars == <<consul, proc>>

\* ------------------------------------------------------------ CircuitBreaker

\* Field initialisers of class CircuitBreaker.
NewBreaker ==
  [state |-> Closed, failureCount |-> 0, successCount |-> 0,
   lastFailureTime |-> 0, nextAttemptTime |-> 0]

\* execute, first statement: the lazy Open -> HalfOpen transition.
attemptRecovery_ignoresClock(b, t) ==
  IF b.state = Open
    THEN [b EXCEPT !.state = HalfOpen, !.successCount = 0]
    ELSE b

attemptRecovery_keepsSuccessCount(b, t) ==
  IF b.state = Open /\ t >= b.nextAttemptTime
    THEN [b EXCEPT !.state = HalfOpen]
    ELSE b

attemptRecovery(b, t) ==
  IF b.state = Open /\ t >= b.nextAttemptTime
    THEN [b EXCEPT !.state = HalfOpen, !.successCount = 0]
    ELSE b

onSuccess_closesFromAnyState(b) ==
  LET b1 == [b EXCEPT !.failureCount = 0, !.successCount = b.successCount + 1]
  IN IF b1.successCount >= HalfOpenSuccessThreshold
       THEN [b1 EXCEPT !.state = Closed]
       ELSE b1

onSuccess(b) ==
  LET b1 == [b EXCEPT !.failureCount = 0, !.successCount = b.successCount + 1]
  IN IF b1.state = HalfOpen /\ b1.successCount >= HalfOpenSuccessThreshold
       THEN [b1 EXCEPT !.state = Closed]
       ELSE b1

onFailure_offByOne(b, t) ==
  LET b1 == [b EXCEPT !.failureCount = b.failureCount + 1, !.lastFailureTime = t]
  IN IF b1.failureCount > FailureThreshold
       THEN [b1 EXCEPT !.state = Open, !.nextAttemptTime = t + RecoveryTimeout]
       ELSE b1

onFailure_keepsFailureTime(b, t) ==
  LET b1 == [b EXCEPT !.failureCount = b.failureCount + 1]
  IN IF b1.failureCount >= FailureThreshold
       THEN [b1 EXCEPT !.state = Open, !.nextAttemptTime = t + RecoveryTimeout]
       ELSE b1

onFailure(b, t) ==
  LET b1 == [b EXCEPT !.failureCount = b.failureCount + 1, !.lastFailureTime = t]
  IN IF b1.failureCount >= FailureThreshold
       THEN [b1 EXCEPT !.state = Open, !.nextAttemptTime = t + RecoveryTimeout]
       ELSE b1

reset_keepsCounters(b) == [b EXCEPT !.state = Closed]

reset_keepsFailureCount(b) ==
  [b EXCEPT !.state = Closed, !.successCount = 0]

reset(b) ==
  [b EXCEPT !.state = Closed, !.failureCount = 0, !.successCount = 0]

\* getStats(): { state, failureCount, successCount, lastFailureTime }
getStats(b) ==
  [state |-> b.state, failureCount |-> b.failureCount,
   successCount |-> b.successCount, lastFailureTime |-> b.lastFailureTime]

\* The record `last` of an operation: which one, by whom, at what time, the
\* breaker state it started in, whether fn was (or had been) invoked for it
\* and what the caller observed.  tog alternates so that every operation is
\* a visible step.
Op(name, c, from, invoked, outcome) ==
  [op |-> name, caller |-> c, t |-> now, from |-> from,
   invoked |-> invoked, outcome |-> outcome, tog |-> 1 - last.tog]

NoneInFlight(p) == \A c \in Callers : p[c] = "idle"
Quiet(b, p) == b.state = Closed /\ b.failureCount = 0 /\ NoneInFlight(p)

\* execute up to the point where fn() is awaited (or the open error thrown).
ExecuteStart(c) ==
  /\ pc[c] = "idle"
  /\ LET b1 == attemptRecovery(cb, now)
         recovered == b1.state # cb.state
     IN /\ cb' = b1
        /\ IF b1.state = Open
             THEN /\ pc' = pc
                  /\ last' = Op("execute", c, cb.state, FALSE, "circuitOpen")
             ELSE /\ pc' = [pc EXCEPT ![c] = "fn"]
                  /\ last' = Op("execute", c, cb.state, TRUE, "pending")
        /\ hist' = [hist EXCEPT
             !.streak = IF recovered \/ ~NoneInFlight(pc) THEN -1 ELSE @,
             !.trial = IF recovered THEN 0 ELSE @,
             !.trials = IF b1.state = HalfOpen THEN @ \cup {c} ELSE @]
  /\ UNCHANGED <<now, pool, limiterVars, ingestVars, lifecycleVars>>

\* fn() resolves: onSuccess, then the result is returned.
FnSucceeds(c) ==
  /\ pc[c] = "fn"
  /\ cb.successCount < MaxSuccess
  /\ cb' = onSuccess(cb)
  /\ pc' = [pc EXCEPT ![c] = "idle"]
  /\ last' = Op("fnOk", c, cb.state, TRUE, "result")
  /\ hist' = [hist EXCEPT
       !.streak = IF Quiet(cb', pc') THEN 0 ELSE -1,
       !.trial = IF cb.state = HalfOpen THEN @ + 1 ELSE @,
       !.trials = @ \ {c}]
  /\ UNCHANGED <<now, pool, limiterVars, ingestVars, lifecycleVars>>

\* fn() rejects: onFailure, then the error is rethrown.
FnFails(c) ==
  /\ pc[c] = "fn"
  /\ cb' = onFailure(cb, now)
  /\ pc' = [pc EXCEPT ![c] = "idle"]
  /\ last' = Op("fnFail", c, cb.state, TRUE, "fnError")
  /\ hist' = [hist EXCEPT
       !.streak = IF @ >= 0 THEN @ + 1 ELSE -1,
       !.trial = 0,
       !.failAt = now,
       !.trials = @ \ {c}]
  /\ UNCHANGED <<now, pool, limiterVars, ingestVars, lifecycleVars>>

\* CircuitBreaker.reset (GrpcClientPool.resetCircuitBreaker).
Reset ==
  /\ cb' = reset(cb)
  /\ last' = Op("reset", "none", cb.state, FALSE, "none")
  /\ hist' = [hist EXCEPT
       !.streak = IF Quiet(cb', pc) THEN 0 ELSE -1,
       !.trial = 0]
  /\ UNCHANGED <<now, pc, pool, limiterVars, ingestVars, lifecycleVars>>

\* ------------------------------------------------------------ GrpcClientPool

\* getConnection: the pooled connection is used when there is one and
\* isChannelReady(connection.channel); otherwise createConnection.
reusesConnection(pl) == pl.connected /\ pl.ready

\* processFile / processFileStream for caller c: getConnection(target), then
\* connection.circuitBreaker.execute(...) up to the point where fn() is
\* awaited.  createConnection makes a new channel (not READY yet) and a new
\* CircuitBreaker; the calls in flight go on with the connection they took
\* (pc "detached": their outcome goes to the breaker that was replaced).
ProcessFile(c) ==
  IF reusesConnection(pool)
    THEN ExecuteStart(c)
    ELSE /\ pc[c] = "idle"
         /\ pool' = [connected |-> TRUE, ready |-> FALSE]
         /\ cb' = attemptRecovery(NewBreaker, now)
         /\ pc' = [x \in Callers |->
                     IF x = c THEN "fn"
                     ELSE IF pc[x] = "fn" THEN "detached" ELSE pc[x]]
         /\ last' = Op("execute", c, NewBreaker.state, TRUE, "pending")
         /\ hist' = [hist EXCEPT !.streak = -1, !.trial = 0, !.trials = {}]
         /\ UNCHANGED <<now, limiterVars, ingestVars, lifecycleVars>>

\* healthCheck(target): getConnection(target), then client.health_check is
\* called on the connection directly, with no circuitBreaker.execute around
\* it; the response or the error goes to the caller.  A connection made by
\* getConnection comes with a new CircuitBreaker, as in processFile.
HealthCheck ==
  /\ \E outcome \in {"result", "fnError"} :
       last' = Op("healthCheck", "none", cb.state, TRUE, outcome)
  /\ IF reusesConnection(pool)
       THEN UNCHANGED <<cb, pc, hist, pool>>
       ELSE /\ pool' = [connected |-> TRUE, ready |-> FALSE]
            /\ cb' = NewBreaker
            /\ pc' = [x \in Callers |->
                        IF pc[x] = "fn" THEN "detached" ELSE pc[x]]
            /\ hist' = [hist EXCEPT !.streak = -1, !.trial = 0, !.trials = {}]
  /\ UNCHANGED <<now, limiterVars, ingestVars, lifecycleVars>>

\* fn() of a call whose connection is no longer the pooled one settles.
DetachedReturns(c) ==
  /\ pc[c] = "detached"
  /\ pc' = [pc EXCEPT ![c] = "idle"]
  /\ last' = Op("detachedReturn", c, cb.state, TRUE, "settled")
  /\ UNCHANGED <<now, cb, hist, pool, limiterVars, ingestVars, lifecycleVars>>

\* The connectivity state of the pooled connection's channel changes.
ChannelState ==
  /\ pool.connected
  /\ pool' = [pool EXCEPT !.ready = ~@]
  /\ last' = Op("channelState", "none", cb.state, FALSE, "none")
  /\ UNCHANGED <<now, cb, pc, hist, limiterVars, ingestVars, lifecycleVars>>

\* closeConnection(target): channel.close(), connections.delete(target).
CloseConnection ==
  /\ pool.connected
  /\ pool' = [connected |-> FALSE, ready |-> FALSE]
  /\ pc' = [x \in Callers |-> IF pc[x] = "fn" THEN "detached" ELSE pc[x]]
  /\ last' = Op("close", "none", cb.state, FALSE, "none")
  /\ hist' = [hist EXCEPT !.streak = -1, !.trial = 0, !.trials = {}]
  /\ UNCHANGED <<now, cb, limiterVars, ingestVars, lifecycleVars>>

\* resetCircuitBreaker(target): reset() when the target has a connection.
ResetCircuitBreaker == pool.connected /\ Reset

\* ------------------------------------------------------ InMemoryRateLimiter

Max(a, b) == IF a >= b THEN a ELSE b

\* Math.ceil(a / b) for integers a and b > 0.
Ceil(a, b) == (a + b - 1) \div b

\* new Map()
EmptyMap == [k \in {} |-> <<>>]

\* this.requests.get(key) || []
getOrEmpty(m, key) == IF key \in DOMAIN m THEN m[key] ELSE <<>>

\* this.requests.set(key, v)
mapSet(m, key, v) ==
  [k \in (DOMAIN m) \cup {key} |-> IF k = key THEN v ELSE m[k]]

\* this.requests.delete(key)
mapDelete(m, key) == [k \in (DOMAIN m) \ {key} |-> m[k]]

newerThan_inclusive(ts, windowStart) ==
  SelectSeq(ts, LAMBDA x : x >= windowStart)

\* timestamps.filter(ts => ts > windowStart)
newerThan(ts, windowStart) == SelectSeq(ts, LAMBDA x : x > windowStart)

inMemoryCheckLimit_admitsAtLimit(m, key, t) ==
  LET windowStart == t - WindowMs
      kept == newerThan(getOrEmpty(m, key), windowStart)
      allowed == Len(kept) <= MaxRequests
      remaining == Max(0, MaxRequests - Len(kept))
      timestamps == IF allowed THEN Append(kept, t) ELSE kept
  IN [requests |-> mapSet(m, key, timestamps),
      allowed |-> allowed,
      remaining |-> remaining,
      resetTime |-> IF Len(timestamps) > 0 THEN timestamps[1] + WindowMs
                                           ELSE t + WindowMs]

inMemoryCheckLimit_resetFromNow(m, key, t) ==
  LET windowStart == t - WindowMs
      kept == newerThan(getOrEmpty(m, key), windowStart)
      allowed == Len(kept) < MaxRequests
      remaining == Max(0, MaxRequests - Len(kept))
      timestamps == IF allowed THEN Append(kept, t) ELSE kept
  IN [requests |-> mapSet(m, key, timestamps),
      allowed |-> allowed,
      remaining |-> remaining,
      resetTime |-> t + WindowMs]

inMemoryCheckLimit_pushesAlways(m, key, t) ==
  LET windowStart == t - WindowMs
      kept == newerThan(getOrEmpty(m, key), windowStart)
      allowed == Len(kept) < MaxRequests
      remaining == Max(0, MaxRequests - Len(kept))
      timestamps == Append(kept, t)
  IN [requests |-> mapSet(m, key, timestamps),
      allowed |-> allowed,
      remaining |-> remaining,
      resetTime |-> IF Len(timestamps) > 0 THEN timestamps[1] + WindowMs
                                           ELSE t + WindowMs]

\* InMemoryRateLimiter.checkLimit at time t: the map afterwards and the
\* decision returned.
inMemoryCheckLimit(m, key, t) ==
  LET windowStart == t - WindowMs
      kept == newerThan(getOrEmpty(m, key), windowStart)
      allowed == Len(kept) < MaxRequests
      remaining == Max(0, MaxRequests - Len(kept))
      timestamps == IF allowed THEN Append(kept, t) ELSE kept
  IN [requests |-> mapSet(m, key, timestamps),
      allowed |-> allowed,
      remaining |-> remaining,
      resetTime |-> IF Len(timestamps) > 0 THEN timestamps[1] + WindowMs
                                           ELSE t + WindowMs]

cleanup_keepsExpiredKeys(m, t) ==
  [k \in DOMAIN m |-> newerThan(m[k], t - WindowMs)]

cleanup_clears(m, t) == EmptyMap

\* InMemoryRateLimiter.cleanup at time t.
cleanup(m, t) ==
  LET windowStart == t - WindowMs
      live == {k \in DOMAIN m : Len(newerThan(m[k], windowStart)) # 0}
  IN [k \in live |-> newerThan(m[k], windowStart)]

\* ts, sorted, with x added.
RECURSIVE SortedInsert(_, _)
SortedInsert(ts, x) ==
  IF ts = <<>> THEN <<x>>
  ELSE IF x < Head(ts) THEN <<x>> \o ts
  ELSE <<Head(ts)>> \o SortedInsert(Tail(ts), x)

\* Of the recorded times `log`, those inside the window that ends at t.
InWindow(log, t) == SelectSeq(log, LAMBDA x : t - WindowMs < x /\ x <= t)

\* res after a check of key k for request p that was answered by `via` with
\* decision d; failed: what made it fall back; appended: the check added a
\* timestamp to some store.
Answered(k, p, via, d, failed, appended) ==
  res' = [op |-> "check", key |-> k, proc |-> p, via |-> via,
          failed |-> failed,
          raised |-> d.raised, allowed |-> d.allowed,
          remaining |-> d.remaining, resetTime |-> d.resetTime,
          appended |-> appended, afterDenial |-> lhist.denied[k],
          tog |-> 1 - res.tog]

NoTtl == -1

\* res when the step just taken returned nothing to a limiter caller.
NoRes == [op |-> "none", key |-> "none", proc |-> "none",
          via |-> "none", failed |-> "none", raised |-> FALSE, allowed |-> FALSE,
          remaining |-> 0, resetTime |-> 0, appended |-> FALSE,
          afterDenial |-> FALSE, tog |-> 0]
IdleProc == [pc |-> "idle", key |-> "none", t |-> 0, allowed |-> FALSE,
             remaining |-> 0, added |-> FALSE]

\* ------------------------------------------------------------- operations

\* A request checked by the in-memory limiter (getLimiter() returned
\* inMemoryLimiter): checkLimit runs without an await inside.
LocalCheck(k) ==
  /\ ~redisEnv
  /\ LET d == inMemoryCheckLimit(requests, k, now)
     IN /\ d.allowed => Len(lhist.admitsAll[k]) < MaxLog
        /\ requests' = d.requests
        /\ Answered(k, "none", "local",
                    [raised |-> FALSE, allowed |-> d.allowed,
                     remaining |-> d.remaining, resetTime |-> d.resetTime],
                    "none",
                    Len(getOrEmpty(d.requests, k))
                      > Len(InWindow(getOrEmpty(requests, k), now)))
        /\ lhist' = [lhist EXCEPT
             !.admitsAll[k] = IF d.allowed THEN Append(@, now) ELSE @,
             !.admitsSince[k] = IF d.allowed THEN Append(@, now) ELSE @,
             !.denied[k] = ~d.allowed]
  /\ UNCHANGED <<breakerVars, ingestVars, lifecycleVars, now, redisEnv, redisState, zset, ttl, rp>>

\* The same check with a second InMemoryRateLimiter beside the first, one
\* that is never swept (lhist.twin): it is given the same key at the same
\* time, and its decision is kept in lhist.twinRes.
TwinnedLocalCheck(k) ==
  /\ ~redisEnv
  /\ LET d == inMemoryCheckLimit(requests, k, now)
         e == inMemoryCheckLimit(lhist.twin, k, now)
     IN /\ d.allowed => Len(lhist.admitsAll[k]) < MaxLog
        /\ requests' = d.requests
        /\ Answered(k, "none", "local",
                    [raised |-> FALSE, allowed |-> d.allowed,
                     remaining |-> d.remaining, resetTime |-> d.resetTime],
                    "none",
                    Len(getOrEmpty(d.requests, k))
                      > Len(InWindow(getOrEmpty(requests, k), now)))
        /\ lhist' = [lhist EXCEPT
             !.admitsAll[k] = IF d.allowed THEN Append(@, now) ELSE @,
             !.admitsSince[k] = IF d.allowed THEN Append(@, now) ELSE @,
             !.denied[k] = ~d.allowed,
             !.twin = e.requests,
             !.twinRes = [key |-> k, t |-> now,
                          allowed |-> e.allowed, remaining |-> e.remaining,
                          resetTime |-> e.resetTime]]
  /\ UNCHANGED <<breakerVars, ingestVars, lifecycleVars, now, redisEnv, redisState, zset, ttl, rp>>

\* The periodic sweep (setInterval(cleanup, windowMs)).
Cleanup ==
  /\ requests' = cleanup(requests, now)
  /\ res' = [NoRes EXCEPT !.op = "cleanup", !.tog = 1 - res.tog]
  /\ UNCHANGED <<breakerVars, ingestVars, lifecycleVars, now, redisEnv, redisState, zset, ttl, rp, lhist>>

\* resetRateLimit(key): inMemoryLimiter.reset, then redisLimiter.reset, which
\* deletes the shared key when the store is there (a failure of del is
\* swallowed) and resets the in-memory key again.
ResetRateLimit(k) ==
  /\ requests' = mapDelete(mapDelete(requests, k), k)
  /\ \/ /\ redisState = "ready"
        /\ zset' = [zset EXCEPT ![k] = <<>>]
        /\ ttl' = [ttl EXCEPT ![k] = NoTtl]
     \/ UNCHANGED <<zset, ttl>>
  /\ res' = [NoRes EXCEPT !.op = "reset", !.key = k, !.tog = 1 - res.tog]
  /\ lhist' = [lhist EXCEPT !.admitsSince[k] = <<>>,
                            !.denied[k] = FALSE]
  /\ UNCHANGED <<breakerVars, ingestVars, lifecycleVars, now, redisEnv, redisState, rp>>


\* --------------------------------------------------------- RedisRateLimiter

\* RedisRateLimiter.enabled && this.redis
redisAvailable == redisState = "ready"

\* The shared store drops a key whose expiry is due.
expired(k) == ttl[k] # NoTtl /\ now >= ttl[k]
members(k) == IF expired(k) THEN <<>> ELSE zset[k]

\* The shared store with key k holding the scores ms: a key without members
\* does not exist and has no expiry; a key that was there keeps its expiry.
storeWith(k, ms) ==
  /\ zset' = [zset EXCEPT ![k] = ms]
  /\ ttl' = [ttl EXCEPT ![k] =
       IF ms = <<>> \/ members(k) = <<>> THEN NoTtl ELSE @]

fallbackOnError_rethrows(m, key, t) ==
  [requests |-> m, raised |-> TRUE, allowed |-> FALSE, remaining |-> 0,
   resetTime |-> 0]

\* The catch block of RedisRateLimiter.checkLimit:
\* return inMemoryLimiter.checkLimit(key).
fallbackOnError(m, key, t) ==
  LET d == inMemoryCheckLimit(m, key, t)
  IN [requests |-> d.requests, raised |-> FALSE, allowed |-> d.allowed,
      remaining |-> d.remaining, resetTime |-> d.resetTime]

\* if (!this.enabled || !this.redis) return inMemoryLimiter.checkLimit(key).
fallbackUnavailable(m, key, t) ==
  LET d == inMemoryCheckLimit(m, key, t)
  IN [requests |-> d.requests, raised |-> FALSE, allowed |-> d.allowed,
      remaining |-> d.remaining, resetTime |-> d.resetTime]

\* Most admissions of one key that are recorded inside one window when
\* the checks that the shared limiter answers are counted (lhist.counting).
MaxAdmits == 2 * MaxRequests + 1

\* The history after a check of key k by the shared limiter that was
\* answered with `allowed`, the admission being that of time t: recorded
\* when lhist.counting.
Counted(k, allowed, t) ==
  /\ (lhist.counting /\ allowed) => Len(lhist.admitsAll[k]) < MaxAdmits
  /\ lhist' = IF lhist.counting /\ allowed
              THEN [lhist EXCEPT !.admitsAll[k] = Append(@, t),
                                 !.admitsSince[k] = Append(@, t)]
              ELSE lhist

\* The request's check ends with the in-memory limiter's answer d, because
\* of `failed`: the store operation that rejected, or "unavailable".
FallBack(p, k, d, failed) ==
  /\ requests' = d.requests
  /\ rp' = [rp EXCEPT ![p] = IdleProc]
  /\ Answered(k, p, "fallback", d, failed,
              \/ rp[p].added
              \/ Len(getOrEmpty(d.requests, k))
                   > Len(InWindow(getOrEmpty(requests, k), now)))
  /\ Counted(k, d.allowed, now)

NoCheckInProgress == \A q \in Procs : rp[q].pc = "idle"

\* initializeRedis completes: this.redis is set.
RedisInitOk ==
  /\ redisState = "pending"
  /\ redisState' = "ready"
  /\ res' = NoRes
  /\ UNCHANGED <<breakerVars, ingestVars, lifecycleVars, now, redisEnv, requests, zset, ttl, rp, lhist>>

\* initializeRedis fails: enabled = false.
RedisInitFail ==
  /\ redisState = "pending"
  /\ redisState' = "failed"
  /\ res' = NoRes
  /\ UNCHANGED <<breakerVars, ingestVars, lifecycleVars, now, redisEnv, requests, zset, ttl, rp, lhist>>

\* RedisRateLimiter.checkLimit(k) is called for request p (getLimiter()
\* returned redisLimiter): the availability test, then now and windowStart.
SharedCheckStart(p, k) ==
  /\ redisEnv
  /\ rp[p].pc = "idle"
  /\ IF ~redisAvailable
       THEN /\ FallBack(p, k, fallbackUnavailable(requests, k, now), "unavailable")
            /\ UNCHANGED <<zset, ttl>>
       ELSE /\ rp' = [rp EXCEPT ![p] = [IdleProc EXCEPT
                        !.pc = "zremrangebyscore", !.key = k, !.t = now]]
            /\ res' = NoRes
            /\ UNCHANGED <<requests, zset, ttl, lhist>>
  /\ UNCHANGED <<breakerVars, ingestVars, lifecycleVars, now, redisEnv, redisState>>

\* A check that starts when no other is in progress (serialized checks).
SerialCheckStart(p, k) == NoCheckInProgress /\ SharedCheckStart(p, k)

\* await this.redis.zremrangebyscore(redisKey, 0, windowStart)
Zremrangebyscore(p) ==
  /\ rp[p].pc = "zremrangebyscore"
  /\ storeWith(rp[p].key,
               newerThan(members(rp[p].key), rp[p].t - WindowMs))
  /\ rp' = [rp EXCEPT ![p].pc = "zcard"]
  /\ res' = NoRes
  /\ UNCHANGED <<breakerVars, ingestVars, lifecycleVars, now, redisEnv, redisState, requests, lhist>>

zcardAllows_atLimit(count) == count <= MaxRequests

\* const allowed = count < this.config.maxRequests
zcardAllows(count) == count < MaxRequests

\* const count = await this.redis.zcard(redisKey); allowed; remaining.
Zcard(p) ==
  /\ rp[p].pc = "zcard"
  /\ LET count == Len(members(rp[p].key))
         allowed == zcardAllows(count)
     IN rp' = [rp EXCEPT ![p].pc = IF allowed THEN "zadd" ELSE "zrange",
                         ![p].allowed = allowed,
                         ![p].remaining = Max(0, MaxRequests - count)]
  /\ res' = NoRes
  /\ UNCHANGED <<breakerVars, ingestVars, lifecycleVars, now, redisEnv, redisState, requests, zset, ttl, lhist>>

\* await this.redis.zadd(redisKey, now, `${now}-${Math.random()}`)
ZaddAdds(p) ==
  /\ rp[p].pc = "zadd"
  /\ storeWith(rp[p].key, SortedInsert(members(rp[p].key), rp[p].t))
  /\ rp' = [rp EXCEPT ![p].pc = "expire", ![p].added = TRUE]
  /\ res' = NoRes
  /\ UNCHANGED <<breakerVars, ingestVars, lifecycleVars, now, redisEnv, redisState, requests>>

Zadd(p) == ZaddAdds(p) /\ UNCHANGED lhist

\* The same, the admission recorded: lhist.scores keeps, per key, every
\* timestamp that a check added to the store (MaxScores of them at most).
LoggedZadd(p) ==
  /\ ZaddAdds(p)
  /\ Len(lhist.scores[rp[p].key]) < MaxScores
  /\ lhist' = [lhist EXCEPT
       !.scores[rp[p].key] = SortedInsert(@, rp[p].t)]

\* A check that starts once the store is connected, whatever else is in
\* progress.
ConcurrentCheckStart(p, k) == redisAvailable /\ SharedCheckStart(p, k)

expiryTime_oneTick(t) == t + 1

\* The time at which a key on which expire(redisKey,
\* Math.ceil(windowMs / 1000) + 1) is called at time t is dropped.
expiryTime(t) == t + (Ceil(WindowMs, MsPerSec) + 1) * MsPerSec

\* await this.redis.expire(redisKey, Math.ceil(windowMs / 1000) + 1)
Expire(p) ==
  /\ rp[p].pc = "expire"
  /\ zset' = [zset EXCEPT ![rp[p].key] = members(rp[p].key)]
  /\ ttl' = [ttl EXCEPT ![rp[p].key] =
       IF members(rp[p].key) = <<>> THEN NoTtl
       ELSE expiryTime(now)]
  /\ rp' = [rp EXCEPT ![p].pc = "zrange"]
  /\ res' = NoRes
  /\ UNCHANGED <<breakerVars, ingestVars, lifecycleVars, now, redisEnv, redisState, requests, lhist>>

\* await this.redis.zrange(redisKey, 0, 0, 'WITHSCORES'); resetTime; return.
ZrangeReturns(p) ==
  /\ rp[p].pc = "zrange"
  /\ LET oldestEntry == members(rp[p].key)
     IN Answered(rp[p].key, p, "redis",
                 [raised |-> FALSE, allowed |-> rp[p].allowed,
                  remaining |-> rp[p].remaining,
                  resetTime |-> IF Len(oldestEntry) > 0
                                  THEN oldestEntry[1] + WindowMs
                                  ELSE rp[p].t + WindowMs],
                 "none", rp[p].added)
  /\ rp' = [rp EXCEPT ![p] = IdleProc]
  /\ UNCHANGED <<breakerVars, ingestVars, lifecycleVars, now, redisEnv, redisState, requests, zset, ttl>>

Zrange(p) ==
  ZrangeReturns(p) /\ Counted(rp[p].key, rp[p].allowed, rp[p].t)

\* The same check with a second InMemoryRateLimiter run beside the Redis
\* limiter: when the check returns, the second limiter (lhist.twin) is given
\* the same key at the same time, and its decision is kept in lhist.twinRes.
PairedZrange(p) ==
  /\ ZrangeReturns(p)
  /\ LET d == inMemoryCheckLimit(lhist.twin, rp[p].key, rp[p].t)
     IN lhist' = [lhist EXCEPT
          !.twin = d.requests,
          !.twinRes = [key |-> rp[p].key, t |-> rp[p].t,
                       allowed |-> d.allowed, remaining |-> d.remaining,
                       resetTime |-> d.resetTime]]

\* A check that starts once the store is connected, no other in progress.
PairedCheckStart(p, k) == redisAvailable /\ SerialCheckStart(p, k)

\* The awaited store operation rejects: the catch block runs.
RedisError(p) ==
  /\ rp[p].pc # "idle"
  /\ FallBack(p, rp[p].key, fallbackOnError(requests, rp[p].key, now),
              rp[p].pc)
  /\ UNCHANGED <<breakerVars, ingestVars, lifecycleVars, now, redisEnv, redisState, zset, ttl>>

\* ---------------------------------------------------- rate-limit middleware

\* The two services; each is a process of its own, with its own limiter.
Services == {"hono", "elysia"}

\* The maxRequests handed to a middleware factory (rateLimitMiddleware's and
\* rateLimitPlugin's options, the first argument of rateLimitByUser,
\* rateLimitByApiKey, rateLimitByIp and rateLimitFileUploads).  The windowMs
\* handed over is taken to be RATE_LIMIT_CONFIG's own.
OptMaxRequests == 1

\* Response statuses: the 429 of a denial, the 200 a route handler sets.
TooManyRequests == 429
Ok == 200

\* http before any request.
NoRequest == [service |-> "none", mw |-> "none", key |-> "none",
              allowed |-> FALSE, status |-> 0, next |-> FALSE, limit |-> 0,
              resetIn |-> 0, delay |-> 0, retryAfter |-> 0, tog |-> 0]

\* checkLimit of new InMemoryRateLimiter({ maxRequests, windowMs }), the
\* limiter that the Elysia rateLimitFileUploads builds.
customCheckLimit(m, key, t) ==
  LET windowStart == t - WindowMs
      kept == newerThan(getOrEmpty(m, key), windowStart)
      allowed == Len(kept) < OptMaxRequests
      remaining == Max(0, OptMaxRequests - Len(kept))
      timestamps == IF allowed THEN Append(kept, t) ELSE kept
  IN [requests |-> mapSet(m, key, timestamps),
      allowed |-> allowed,
      remaining |-> remaining,
      resetTime |-> IF Len(timestamps) > 0 THEN timestamps[1] + WindowMs
                                           ELSE t + WindowMs]

\* The request as it leaves middleware mw of the running service: the
\* decision d for key k, the status of the response, whether the downstream
\* handler ran; X-RateLimit-Limit is the maxRequests handed to the factory.
\* resetIn is result.resetTime less the Date.now() of the check.  A denial
\* reads Date.now() once more, after the await of the check, for
\* retryAfter = Math.ceil((result.resetTime - Date.now()) / 1000): the
\* clock may have moved on by then (delay).
Served(mw, k, d, status, next) ==
  \E later \in now..(now + 1) :
    /\ d.allowed => later = now /\ Len(lhist.admitsAll[k]) < MaxLog
    /\ later <= MaxClock
    /\ now' = later
    /\ http' = [http EXCEPT !.mw = mw, !.key = k, !.allowed = d.allowed,
                            !.status = status, !.next = next,
                            !.limit = OptMaxRequests,
                            !.resetIn = d.resetTime - now,
                            !.delay = later - now,
                            !.retryAfter =
                               IF d.allowed THEN 0
                               ELSE Ceil(d.resetTime - later, MsPerSec),
                            !.tog = 1 - @]
    /\ lhist' = [lhist EXCEPT
         !.admitsAll = [x \in Keys |->
            InWindow(IF x = k /\ d.allowed THEN Append(@[x], now) ELSE @[x],
                     later)],
         !.admitsSince = [x \in Keys |->
            InWindow(IF x = k /\ d.allowed THEN Append(@[x], now) ELSE @[x],
                     later)],
         !.denied[k] = ~d.allowed]
    /\ res' = [NoRes EXCEPT !.op = mw, !.key = k, !.tog = 1 - res.tog]
    /\ UNCHANGED <<breakerVars, redisEnv, redisState, zset, ttl, rp,
                   buffer, imp, scan, lifecycleVars>>

\* The handler returned by the Hono rateLimitMiddleware(options), which is
\* also what rateLimitByUser, rateLimitByApiKey, rateLimitByIp and
\* rateLimitFileUploads return (they differ in the key they generate): the
\* check is made by getLimiter(), the limiter built from RATE_LIMIT_CONFIG;
\* a denial is answered with 429 and next() is not called.
HonoRateLimit(k) ==
  /\ http.service = "hono"
  /\ ~redisEnv
  /\ LET d == inMemoryCheckLimit(requests, k, now)
     IN /\ requests' = d.requests
        /\ Served("rateLimitMiddleware", k, d,
                  IF d.allowed THEN Ok ELSE TooManyRequests, d.allowed)

\* What follows an Elysia derive hook that has set.status = 429 and
\* returned an object: derive only adds the returned properties to the
\* context, so the route handler runs, and it may set the status anew.
AfterDerive(mw, k, d) ==
  \E status \in {Ok, TooManyRequests} :
    /\ d.allowed => status = Ok
    /\ Served(mw, k, d, status, TRUE)

\* The derive hook of the Elysia rateLimitPlugin(options): the check is
\* made by getLimiter().
ElysiaRateLimitPlugin(k) ==
  /\ http.service = "elysia"
  /\ ~redisEnv
  /\ LET d == inMemoryCheckLimit(requests, k, now)
     IN /\ requests' = d.requests
        /\ AfterDerive("rateLimitPlugin", k, d)

\* The derive hook of the Elysia rateLimitByUser(maxRequests, windowMs).
ElysiaRateLimitByUser(k) ==
  /\ http.service = "elysia"
  /\ ~redisEnv
  /\ LET d == inMemoryCheckLimit(requests, k, now)
     IN /\ requests' = d.requests
        /\ AfterDerive("rateLimitByUser", k, d)

\* The derive hook of the Elysia rateLimitFileUploads(maxRequests,
\* windowMs): every request builds a limiter of its own, checks it once and
\* drops it.
ElysiaRateLimitFileUploads(k) ==
  /\ http.service = "elysia"
  /\ LET d == customCheckLimit(EmptyMap, k, now)
     IN /\ UNCHANGED requests
        /\ AfterDerive("rateLimitFileUploads", k, d)

\* ------------------------------------------------------- ingestion pipeline
\* (elysia-csv-service/src/index.ts, from line 455 on: utils/csv-parser)
\*
\* A buffer is a sequence of bytes, each written as a string: a printable
\* ASCII byte as its character, tab, line feed and carriage return as "\t",
\* "\n" and "\r", the grave accent and any other byte as its two
\* hexadecimal digits in angle brackets.  buffer.toString('utf-8') of such
\* a buffer has one character per byte (the bytes above 7F of the buffers
\* used here do not form UTF-8 sequences and decode to one replacement
\* character each).

\* The code of byte c: Ascii holds the printable ASCII characters from code
\* 32 on, RawByte the other bytes that occur in the buffers.
byteOf(c) ==
  LET Ascii ==
        <<" ", "!", "\"", "#", "$", "%", "&", "'", "(", ")", "*", "+", ",", "-",
        ".", "/", "0", "1", "2", "3", "4", "5", "6", "7", "8", "9", ":", ";",
        "<", "=", ">", "?", "@", "A", "B", "C", "D", "E", "F", "G", "H", "I",
        "J", "K", "L", "M", "N", "O", "P", "Q", "R", "S", "T", "U", "V", "W",
        "X", "Y", "Z", "[", "\\", "]", "^", "_", "<60>", "a", "b", "c", "d", "e",
        "f", "g", "h", "i", "j", "k", "l", "m", "n", "o", "p", "q", "r", "s",
        "t", "u", "v", "w", "x", "y", "z", "{", "|", "}", "~">>
      RawByte ==
        ("\t" :> 9) @@ ("\n" :> 10) @@ ("\r" :> 13) @@ ("<03>" :> 3) @@
        ("<04>" :> 4) @@ ("<11>" :> 17) @@ ("<1a>" :> 26) @@ ("<a1>" :> 161) @@
        ("<b1>" :> 177) @@ ("<cf>" :> 207) @@ ("<d0>" :> 208) @@ ("<e0>" :> 224) @@
        ("<e1>" :> 225)
  IN IF c \in DOMAIN RawByte THEN RawByte[c]
     ELSE 31 + (CHOOSE i \in 1..Len(Ascii) : Ascii[i] = c)

\* buf.toString('hex')
toHex(buf) ==
  LET HexDigits ==
        <<"0", "1", "2", "3", "4", "5", "6", "7", "8", "9",
        "a", "b", "c", "d", "e", "f">>
  IN [i \in 1..(2 * Len(buf)) |->
        LET b == byteOf(buf[(i + 1) \div 2])
        IN HexDigits[(IF i % 2 = 1 THEN b \div 16 ELSE b % 16) + 1]]

Least(S) == CHOOSE x \in S : \A y \in S : x <= y
Greatest(S) == CHOOSE x \in S : \A y \in S : x >= y

\* detectFileType's buffer.slice(0, 8) and Math.min(1000, buffer.length).
MagicLen == 8
TextProbe == 1000

\* detectFileType(buffer), with its literals '504b0304' and
\* 'd0cf11e0a1b11ae1'.
detectFileType(buf) ==
  LET ZipMagic == <<"5", "0", "4", "b", "0", "3", "0", "4">>
      Ole2Magic ==
        <<"d", "0", "c", "f", "1", "1", "e", "0",
          "a", "1", "b", "1", "1", "a", "e", "1">>
      header == toHex(SubSeq(buf, 1, IF Len(buf) < MagicLen THEN Len(buf)
                                                           ELSE MagicLen))
      content == SubSeq(buf, 1, IF Len(buf) < TextProbe THEN Len(buf)
                                                        ELSE TextProbe)
  IN IF header = ZipMagic \/ header = Ole2Magic
     THEN "xlsx"
     ELSE IF /\ \E i \in 1..Len(content) : content[i] = ","
             /\ \E i \in 1..Len(content) : content[i] = "\n"
          THEN "csv"
          ELSE "unknown"

\* What String.prototype.trim removes, of the characters above.
WhiteSpace == {" ", "\t", "\n", "\r"}

\* s.trim()
trim(s) ==
  LET ink == {i \in 1..Len(s) : s[i] \notin WhiteSpace}
  IN IF ink = {} THEN <<>> ELSE SubSeq(s, Least(ink), Greatest(ink))

\* content.split(/\r?\n/), from position a on: the piece up to the next
\* line feed, without a carriage return right before it.
RECURSIVE splitFrom(_, _)
splitFrom(content, a) ==
  LET later == {i \in a..Len(content) : content[i] = "\n"}
  IN IF later = {} THEN <<SubSeq(content, a, Len(content))>>
     ELSE LET b == Least(later)
              e == IF b > a /\ content[b - 1] = "\r" THEN b - 2 ELSE b - 1
          IN <<SubSeq(content, a, e)>> \o splitFrom(content, b + 1)

\* content.split(/\r?\n/).filter(line => line.trim())
lines(content) ==
  SelectSeq(splitFrom(content, 1), LAMBDA l : trim(l) # <<>>)

\* pattern.exec(line) for pattern = /(?:^|,)(?:"([^"]*)"|([^",]*))/g with
\* pattern.lastIndex = i (indices count from 0, as in the code).  The search
\* starts at i; `^` matches at index 0 only, so from i > 0 a match starts at
\* the next comma.  The field after the prefix is a quoted one when a quote
\* opens it and another quote follows, else the longest run without quote
\* and comma, which may be empty.  lastIndex becomes the end of the match,
\* or 0 when there is none.
exec(line, i) ==
  LET n == Len(line)
      commas == {p \in i..(n - 1) : line[p + 1] = ","}
      found == i = 0 \/ commas # {}
      q == IF i = 0 THEN 0 ELSE Least(commas) + 1
      closing == {j \in (q + 1)..(n - 1) : line[j + 1] = "\""}
      quoted == q < n /\ line[q + 1] = "\"" /\ closing # {}
      stops == {j \in q..(n - 1) : line[j + 1] \in {"\"", ","}}
      e == IF quoted THEN Least(closing) + 1
           ELSE IF stops = {} THEN n ELSE Least(stops)
  IN IF found
     THEN [found |-> TRUE,
           value |-> IF quoted THEN SubSeq(line, q + 2, Least(closing))
                               ELSE SubSeq(line, q + 1, e),
           lastIndex |-> e]
     ELSE [found |-> FALSE, value |-> <<>>, lastIndex |-> 0]

\* parseLine's loop, while ((match = pattern.exec(line)) !== null), comes
\* back to the state it started in when the first match is empty: the line
\* opens with a comma, or with a quote that is not closed.
loops(line) == exec(line, 0).found /\ exec(line, 0).lastIndex = 0

\* parseLine(line), for a line on which the loop ends: the values pushed
\* from lastIndex = i on.
RECURSIVE valuesFrom(_, _)
valuesFrom(line, i) ==
  LET m == exec(line, i)
  IN IF m.found THEN <<m.value>> \o valuesFrom(line, m.lastIndex)
     ELSE <<>>

parseLine(line) == valuesFrom(line, 0)

UpperCase ==
  <<"A", "B", "C", "D", "E", "F", "G", "H", "I", "J", "K", "L", "M",
    "N", "O", "P", "Q", "R", "S", "T", "U", "V", "W", "X", "Y", "Z">>
LowerCase ==
  <<"a", "b", "c", "d", "e", "f", "g", "h", "i", "j", "k", "l", "m",
    "n", "o", "p", "q", "r", "s", "t", "u", "v", "w", "x", "y", "z">>
Digits == <<"0", "1", "2", "3", "4", "5", "6", "7", "8", "9">>

Range(f) == {f[i] : i \in DOMAIN f}

toLowerCase(c) ==
  IF c \in Range(UpperCase)
  THEN LowerCase[CHOOSE i \in 1..Len(UpperCase) : UpperCase[i] = c]
  ELSE c

\* header.toLowerCase().replace(/[^a-z0-9]/g, '_')
keyOf(header) ==
  [i \in 1..Len(header) |->
     IF toLowerCase(header[i]) \in Range(LowerCase) \cup Range(Digits)
     THEN toLowerCase(header[i]) ELSE "_"]

\* s.includes(sub)
includes(s, sub) ==
  \E i \in 0..(Len(s) - Len(sub)) : SubSeq(s, i + 1, i + Len(sub)) = sub

\* Amounts are held in fixed point, MaxDecimals decimal places.
MaxDecimals == 3
Scale == 10 ^ MaxDecimals

\* The values a cell of a row can hold.
Str(s) == [t |-> "string", s |-> s, n |-> 0, finite |-> TRUE]
Num(n) == [t |-> "number", s |-> <<>>, n |-> n, finite |-> TRUE]
Infinite(n) == [t |-> "number", s |-> <<>>, n |-> n, finite |-> FALSE]
Undefined == [t |-> "undefined", s |-> <<>>, n |-> 0, finite |-> TRUE]

digitsPrefix(s) ==
  LET other == {i \in 1..Len(s) : s[i] \notin Range(Digits)}
  IN IF other = {} THEN s ELSE SubSeq(s, 1, Least(other) - 1)

RECURSIVE toNat(_)
toNat(ds) ==
  IF ds = <<>> THEN 0
  ELSE 10 * toNat(SubSeq(ds, 1, Len(ds) - 1))
       + (CHOOSE d \in 0..9 : Digits[d + 1] = ds[Len(ds)])

\* parseFloat(str) of a decimal literal without exponent part: leading
\* white space, a sign, "Infinity" or digits with an optional fraction;
\* whatever follows is ignored; NaN when there is no digit.  Decimal places
\* beyond MaxDecimals are cut off (the amounts used here have none).
parseFloat(str) ==
  LET ink == {i \in 1..Len(str) : str[i] \notin WhiteSpace}
      s0 == IF ink = {} THEN <<>> ELSE SubSeq(str, Least(ink), Len(str))
      signed == s0 # <<>> /\ s0[1] \in {"+", "-"}
      sign == IF s0 # <<>> /\ s0[1] = "-" THEN -1 ELSE 1
      s1 == IF signed THEN Tail(s0) ELSE s0
      whole == digitsPrefix(s1)
      rest == SubSeq(s1, Len(whole) + 1, Len(s1))
      frac == IF rest # <<>> /\ rest[1] = "." THEN digitsPrefix(Tail(rest))
              ELSE <<>>
      kept == SubSeq(frac, 1, IF Len(frac) < MaxDecimals THEN Len(frac)
                                                        ELSE MaxDecimals)
      InfinityLiteral == <<"I", "n", "f", "i", "n", "i", "t", "y">>
  IN IF /\ Len(s1) >= Len(InfinityLiteral)
        /\ SubSeq(s1, 1, Len(InfinityLiteral)) = InfinityLiteral
     THEN [nan |-> FALSE, v |-> Infinite(sign)]
     ELSE IF whole = <<>> /\ frac = <<>>
          THEN [nan |-> TRUE, v |-> Undefined]
          ELSE [nan |-> FALSE,
                v |-> Num(sign * (toNat(whole) * Scale
                        + toNat(kept) * 10 ^ (MaxDecimals - Len(kept))))]

\* The column keys the code looks for.
Key ==
  [region |-> <<"r", "e", "g", "i", "o", "n">>,
   country |-> <<"c", "o", "u", "n", "t", "r", "y">>,
   amount |-> <<"a", "m", "o", "u", "n", "t">>,
   price |-> <<"p", "r", "i", "c", "e">>,
   value |-> <<"v", "a", "l", "u", "e">>,
   id |-> <<"i", "d">>,
   date |-> <<"d", "a", "t", "e">>,
   category |-> <<"c", "a", "t", "e", "g", "o", "r", "y">>]

\* The cell stored under `key` for the text `value`: a number when the key
\* names an amount and parseFloat(value.replace(/[$,]/g, '')) is not NaN.
cellOf(key, value) ==
  IF includes(key, Key.amount) \/ includes(key, Key.price)
       \/ includes(key, Key.value)
  THEN LET num == parseFloat(SelectSeq(value, LAMBDA c : c \notin {"$", ","}))
       IN IF ~num.nan THEN num.v ELSE Str(value)
  ELSE Str(value)

\* The row object built from the values of one line: per key the cell of
\* the last column that has the key; values[index] || ''.
rowOf(keys, values) ==
  [k \in Range(keys) |->
     LET index == Greatest({j \in 1..Len(keys) : keys[j] = k})
     IN cellOf(k, IF index <= Len(values) THEN values[index] ELSE <<>>)]

\* parseCSVWithRegex(content): threw, when it throws 'CSV file is empty';
\* loops, when parseLine does not come back; else the rows.
parseCSVWithRegex(content) ==
  LET ls == lines(content)
  IN IF ls = <<>>
     THEN [threw |-> TRUE, loops |-> FALSE, rows |-> <<>>]
     ELSE IF \E i \in 1..Len(ls) : loops(ls[i])
     THEN [threw |-> FALSE, loops |-> TRUE, rows |-> <<>>]
     ELSE LET named == parseLine(ls[1])
              keys == [i \in 1..Len(named) |-> keyOf(trim(named[i]))]
              parsed == [i \in 1..(Len(ls) - 1) |-> parseLine(ls[i + 1])]
              kept == SelectSeq(parsed,
                        LAMBDA vs : \E j \in 1..Len(vs) : trim(vs[j]) # <<>>)
          IN [threw |-> FALSE, loops |-> FALSE,
              rows |-> [i \in 1..Len(kept) |-> rowOf(keys, kept[i])]]

get(row, key) == IF key \in DOMAIN row THEN row[key] ELSE Undefined

optionalString(row, key) == get(row, key).t \in {"undefined", "string"}

CSV_ROW_SCHEMA_anyRegion(row) ==
  /\ get(row, Key.region).t = "string"
  /\ get(row, Key.country).t = "string" /\ get(row, Key.country).s # <<>>
  /\ get(row, Key.amount).t = "number" /\ get(row, Key.amount).finite
  /\ optionalString(row, Key.id)
  /\ optionalString(row, Key.date)
  /\ optionalString(row, Key.category)

\* CSV_ROW_SCHEMA.parse(row) does not throw.
CSV_ROW_SCHEMA(row) ==
  /\ get(row, Key.region).t = "string" /\ get(row, Key.region).s # <<>>
  /\ get(row, Key.country).t = "string" /\ get(row, Key.country).s # <<>>
  /\ get(row, Key.amount).t = "number" /\ get(row, Key.amount).finite
  /\ optionalString(row, Key.id)
  /\ optionalString(row, Key.date)
  /\ optionalString(row, Key.category)

\* The validated row: the fields that aggregateRegionData reads.
validated(row) ==
  [region |-> row[Key.region].s, country |-> row[Key.country].s,
   amount |-> row[Key.amount].n]

\* The 100 of Math.round(x * 100) / 100.
Hundred == 100

\* Math.round((num / den) * 100), the value in hundredths, for num in
\* units of 1 / Scale: the nearest integer, a half going up.
round2(num, den) ==
  (2 * Hundred * num + den * Scale) \div (2 * den * Scale)

existing_countsOnce(entry, row) ==
  [entry EXCEPT !.amountSum = @ + row.amount]

\* existing.count++; existing.amountSum += row.amount
existing(entry, row) ==
  [entry EXCEPT !.count = @ + 1, !.amountSum = @ + row.amount]

\* The Map of aggregateRegionData after `rows`, in insertion order, from
\* the entries `agg`.
RECURSIVE aggregation(_, _)
aggregation(rows, agg) ==
  IF rows = <<>> THEN agg
  ELSE LET row == Head(rows)
           key == row.region \o <<":">> \o row.country
           hit == {i \in 1..Len(agg) : agg[i].key = key}
       IN aggregation(Tail(rows),
            IF hit # {}
            THEN [agg EXCEPT ![Least(hit)] = existing(@, row)]
            ELSE Append(agg, [key |-> key, region |-> row.region,
                              country |-> row.country, count |-> 1,
                              amountSum |-> row.amount]))

\* The order of the characters under localeCompare, for the characters
\* that regions are made of here: punctuation, digits, letters; a letter
\* and its capital differ only when everything else is equal, and then the
\* small one comes first.
rank(c) ==
  LET Collation == <<":">> \o Digits \o LowerCase
  IN CHOOSE i \in 1..Len(Collation) : Collation[i] = toLowerCase(c)

\* a.localeCompare(b) < 0
RECURSIVE before(_, _, _)
before(a, b, cased) ==
  LET differ == {i \in 1..(IF Len(a) < Len(b) THEN Len(a) ELSE Len(b)) :
                   IF cased THEN a[i] # b[i] ELSE rank(a[i]) # rank(b[i])}
  IN IF differ # {}
     THEN IF cased THEN a[Least(differ)] \in Range(LowerCase)
          ELSE rank(a[Least(differ)]) < rank(b[Least(differ)])
     ELSE IF Len(a) # Len(b) THEN Len(a) < Len(b)
     ELSE ~cased /\ before(a, b, TRUE)

\* summaries.sort((a, b) => a.region.localeCompare(b.region)), which keeps
\* the order of entries that compare equal.
RECURSIVE sortByRegion(_)
sortByRegion(ss) ==
  IF ss = <<>> THEN <<>>
  ELSE LET done == sortByRegion(SubSeq(ss, 1, Len(ss) - 1))
           x == ss[Len(ss)]
           later == {i \in 1..Len(done) : before(x.region, done[i].region, FALSE)}
           at == IF later = {} THEN Len(done) + 1 ELSE Least(later)
       IN SubSeq(done, 1, at - 1) \o <<x>> \o SubSeq(done, at, Len(done))

aggregateRegionData_avgOfRounded(rows) ==
  LET agg == aggregation(rows, <<>>)
  IN sortByRegion([i \in 1..Len(agg) |->
       [region |-> agg[i].region, country |-> agg[i].country,
        count |-> agg[i].count,
        amountSum |-> round2(agg[i].amountSum, 1),
        amountAvg |-> round2(round2(agg[i].amountSum, 1) * (Scale \div Hundred),
                             agg[i].count)]])

\* aggregateRegionData(rows); amountSum and amountAvg are in hundredths.
aggregateRegionData(rows) ==
  LET agg == aggregation(rows, <<>>)
  IN sortByRegion([i \in 1..Len(agg) |->
       [region |-> agg[i].region, country |-> agg[i].country,
        count |-> agg[i].count,
        amountSum |-> round2(agg[i].amountSum, 1),
        amountAvg |-> round2(agg[i].amountSum, agg[i].count)]])

\* imp before the buffer has been handed to anything.
NoImport ==
  [state |-> "idle", via |-> "none", detectedType |-> "none",
   invoked |-> "none", outcome |-> "none", error |-> "none",
   rows |-> <<>>, valid |-> <<>>, rowCount |-> 0,
   successCount |-> 0, errorCount |-> 0, summaries |-> <<>>]

\* processCsvFile(buffer): the ParseResult (without the timings), the
\* error thrown, or "hang" when the call does not return.  rows and valid
\* are the locals rows and validatedRows.
processCsvFile(buf) ==
  LET parsed == parseCSVWithRegex(buf)
      validatedRows ==
        [i \in 1..Len(SelectSeq(parsed.rows, CSV_ROW_SCHEMA)) |->
           validated(SelectSeq(parsed.rows, CSV_ROW_SCHEMA)[i])]
      errors == SelectSeq(parsed.rows, LAMBDA r : ~CSV_ROW_SCHEMA(r))
  IN IF parsed.loops
     THEN [NoImport EXCEPT !.state = "done", !.outcome = "hang"]
     ELSE IF parsed.threw
     THEN [NoImport EXCEPT !.state = "done", !.outcome = "error",
                           !.error = "Failed to parse CSV: CSV file is empty"]
     ELSE [NoImport EXCEPT
             !.state = "done", !.outcome = "result",
             !.rows = parsed.rows, !.valid = validatedRows,
             !.rowCount = Len(parsed.rows),
             !.successCount = Len(validatedRows),
             !.errorCount = Len(errors),
             !.summaries = aggregateRegionData(validatedRows)]

\* ------------------------------------------------- operations on a buffer

\* handleFileImport from the buffer on (the same in both services): the
\* type is detected, anything but csv and xlsx is refused with a
\* ValidationError, a csv goes to processCsvFile, an xlsx to
\* processExcelFile (whose reading of the workbook is not followed here).
HandleFileImport ==
  /\ imp.state = "idle"
  /\ LET detectedType == detectFileType(buffer)
     IN imp' =
          IF detectedType = "csv"
          THEN [processCsvFile(buffer) EXCEPT
                  !.via = "handleFileImport", !.detectedType = detectedType,
                  !.invoked = "processCsvFile"]
          ELSE IF detectedType = "xlsx"
          THEN [NoImport EXCEPT
                  !.state = "done", !.via = "handleFileImport",
                  !.detectedType = detectedType,
                  !.invoked = "processExcelFile", !.outcome = "excel"]
          ELSE [NoImport EXCEPT
                  !.state = "done", !.via = "handleFileImport",
                  !.detectedType = detectedType, !.outcome = "error",
                  !.error = "Invalid file type. Only CSV and Excel files are supported."]
  /\ UNCHANGED <<now, breakerVars, limiterVars, lifecycleVars, http, buffer, scan>>

\* processCsvFile called with the buffer as it is, as the gRPC ProcessFile
\* does for file_type 'csv'.
ProcessCsvFile ==
  /\ imp.state = "idle"
  /\ imp' = [processCsvFile(buffer) EXCEPT
               !.via = "processCsvFile", !.invoked = "processCsvFile"]
  /\ UNCHANGED <<now, breakerVars, limiterVars, lifecycleVars, http, buffer, scan>>

\* Longest line whose parseLine loop is followed step by step.
MaxLineLen == 3
\* More pushes than a loop that ends can make on such a line: values is
\* held up to this length and started over beyond it.
MaxValues == MaxLineLen + 2

\* scan when no line is being taken apart.
NoScan == [line |-> <<>>, lastIndex |-> 0, values |-> <<>>, done |-> TRUE]

\* One turn of while ((match = pattern.exec(line)) !== null) with a match:
\* values.push(...).
ExecMatch ==
  /\ ~scan.done
  /\ LET match == exec(scan.line, scan.lastIndex)
     IN /\ match.found
        /\ scan' = [scan EXCEPT !.lastIndex = match.lastIndex,
                                !.values = IF Len(@) < MaxValues
                                           THEN Append(@, match.value)
                                           ELSE <<match.value>>]
  /\ UNCHANGED <<now, breakerVars, limiterVars, lifecycleVars, http, buffer, imp>>

\* exec returns null: the loop ends and parseLine returns values.
ExecNull ==
  /\ ~scan.done
  /\ ~exec(scan.line, scan.lastIndex).found
  /\ scan' = [scan EXCEPT !.lastIndex = 0, !.done = TRUE]
  /\ UNCHANGED <<now, breakerVars, limiterVars, lifecycleVars, http, buffer, imp>>

\* ------------------------------------------------------------------ inputs

\* Most data rows of one file.
MaxRows == 2

\* The data lines.  Groups: (region, country) of the rows that pass
\* validation, two that differ in case only and two that differ in where the
\* colon stands.  InvalidLines: rows that fail validation, with no region,
\* no country, an amount that is not a number, that is not finite, that is
\* missing.  OddLines: a line with an empty first field, one that opens
\* with a quote that is never closed, one with a quoted field, one with
\* blank values only, one whose amount goes on after its digits.
DataLines ==
  LET Line(id, region, country, amount) ==
        id \o <<",">> \o region \o <<",">> \o country \o <<",">> \o amount
      Groups ==
        {<<<<"a">>, <<"c">>>>, <<<<"A">>, <<"c">>>>,
        <<<<"a">>, <<"b", ":", "c">>>>, <<<<"a", ":", "b">>, <<"c">>>>}
      Amounts == {<<"5">>, <<"-", "5">>, <<"0", ".", "0", "0", "4">>}
      ValidLines ==
        {Line(<<"1">>, g[1], g[2], a) : g \in Groups, a \in Amounts}
      InvalidLines ==
        {Line(<<"1">>, <<>>, <<"c">>, <<"5">>), Line(<<"1">>, <<"a">>, <<>>, <<"5">>),
        Line(<<"1">>, <<"a">>, <<"c">>, <<"x">>),
        Line(<<"1">>, <<"a">>, <<"c">>, <<"I", "n", "f", "i", "n", "i", "t", "y">>),
        Line(<<"1">>, <<"a">>, <<"c">>, <<>>)}
      OddLines ==
        {Line(<<>>, <<"a">>, <<"c">>, <<"5">>), <<"\"">> \o Line(<<"1">>, <<"a">>, <<"c">>, <<"5">>),
        Line(<<"1">>, <<"\"", "a", "\"">>, <<"c">>, <<"5">>), <<" ", ",", " ">>,
        Line(<<"1">>, <<"a">>, <<"c">>, <<"5", "x">>)}
  IN ValidLines \cup InvalidLines \cup OddLines

\* Every line followed by a line feed.
RECURSIVE joined(_)
joined(ls) ==
  IF ls = <<>> THEN <<>> ELSE Head(ls) \o <<"\n">> \o joined(Tail(ls))

CsvBuffers ==
  LET Headers ==
        {<<"i", "d", ",", "r", "e", "g", "i", "o", "n", ",",
           "c", "o", "u", "n", "t", "r", "y", ",", "a", "m", "o", "u", "n", "t">>,
         <<"I", "D", ",", "R", "e", "g", "i", "o", "n", ",",
           "C", "o", "u", "n", "t", "r", "y", ",", "A", "m", "o", "u", "n", "t">>}
  IN
  {joined(<<h>> \o rows) :
     h \in Headers, rows \in UNION {[1..n -> DataLines] : n \in 0..MaxRows}}

Padding(n) == [i \in 1..n |-> "a"]
ZipSignature == <<"P", "K", "<03>", "<04>">>
Ole2Signature ==
  <<"<d0>", "<cf>", "<11>", "<e0>", "<a1>", "<b1>", "<1a>", "<e1>">>

\* Buffers that are no table: nothing, blank lines, text without comma or
\* without line feed, carriage returns, the container signatures alone and
\* followed by more bytes, and a comma and a line feed at the edge of the
\* first TextProbe bytes.
OtherBuffers ==
  {<<>>, <<"\n", " ", "\r", "\n">>, <<"a", "\n">>, <<"a", ",", "b">>,
   <<"r", "e", "g", "i", "o", "n", ",", "c", "o", "u", "n", "t", "r", "y", ",", "a", "m", "o", "u", "n", "t", "\r", "\n", "b", ",", "c", ",", "5", "\r", "\n">>,
   ZipSignature, ZipSignature \o <<"<11>", "<04>", "<03>", "<04>">>,
   ZipSignature \o <<"<11>", "<04>", "<03>", "<04>", ",", "\n">>,
   Ole2Signature, Ole2Signature \o <<",", "\n">>,
   Padding(TextProbe - 2) \o <<",", "\n">>,
   Padding(TextProbe - 1) \o <<",", "\n">>,
   Padding(TextProbe) \o <<",", "\n">>}

Buffers == CsvBuffers \cup OtherBuffers

\* The lines taken apart step by step: all of up to MaxLineLen characters
\* out of a letter, the comma and the quote.
ScanLines ==
  UNION {[1..n -> {"a", ",", "\""}] : n \in 1..MaxLineLen}

\* ------------------------------------------------------------ ConsulClient

\* A ConsulClient whose config.enabled is false: the constructor does not
\* call initialize.  failures (the failed connection attempts in a row) and
\* op (the last step) are history.
NoConsul ==
  [enabled |-> FALSE, reconnectAttempts |-> 0, inflight |-> 0, since |-> 0,
   timers |-> <<>>, clock |-> 0, failures |-> 0, op |-> "none"]

handleConnectionError_atMost(c) ==
  LET n == c.reconnectAttempts + 1
      pow == BackoffBase * 2^n
      delay == IF pow < BackoffCap THEN pow ELSE BackoffCap
  IN IF c.reconnectAttempts <= maxReconnectAttempts
       THEN [c EXCEPT !.reconnectAttempts = n,
                      !.timers = Append(@, c.clock + delay)]
       ELSE c

\* handleConnectionError: below maxReconnectAttempts the counter goes up and
\* setTimeout(() => this.initialize(), delay) is called with
\* delay = Math.min(1000 * Math.pow(2, reconnectAttempts), 30000).
handleConnectionError(c) ==
  LET n == c.reconnectAttempts + 1
      pow == BackoffBase * 2^n
      delay == IF pow < BackoffCap THEN pow ELSE BackoffCap
  IN IF c.reconnectAttempts < maxReconnectAttempts
       THEN [c EXCEPT !.reconnectAttempts = n,
                      !.timers = Append(@, c.clock + delay)]
       ELSE c

\* initialize: new Consul(...) and consul.status.leader(callback); when that
\* throws, the catch block calls handleConnectionError.
initialize(c, threw) ==
  IF threw
    THEN handleConnectionError(c)
    ELSE [c EXCEPT !.inflight = @ + 1, !.since = c.clock]

\* The callback of status.leader runs, with an error or with the leader.
LeaderCallback ==
  /\ consul.inflight > 0
  /\ \E err \in BOOLEAN :
       LET c == [consul EXCEPT !.inflight = @ - 1] IN
       consul' = IF err
                   THEN [handleConnectionError(c) EXCEPT
                           !.failures = @ + 1, !.op = "leaderErr"]
                   ELSE [c EXCEPT !.reconnectAttempts = 0,
                                  !.failures = 0, !.op = "leaderOk"]
  /\ UNCHANGED <<now, breakerVars, limiterVars, ingestVars, proc>>

\* A retry timer is due: its callback calls initialize.
RetryTimer ==
  /\ \E i \in 1..Len(consul.timers) :
       /\ consul.timers[i] <= consul.clock
       /\ \E threw \in BOOLEAN :
            LET c == [consul EXCEPT
                        !.timers = SubSeq(@, 1, i - 1) \o
                                   SubSeq(@, i + 1, Len(@))]
            IN consul' = [initialize(c, threw) EXCEPT
                            !.failures = IF threw THEN @ + 1 ELSE @,
                            !.op = IF threw THEN "initThrew" ELSE "init"]
  /\ UNCHANGED <<now, breakerVars, limiterVars, ingestVars, proc>>

\* Time passes while a leader check is awaited or before a timer is due.
ConsulWait ==
  /\ \/ /\ consul.inflight > 0
        /\ consul.clock - consul.since < MaxLatency * WaitMs
     \/ /\ consul.timers # <<>>
        /\ \A i \in 1..Len(consul.timers) : consul.clock < consul.timers[i]
  /\ consul' = [consul EXCEPT !.clock = @ + WaitMs, !.op = "wait"]
  /\ UNCHANGED <<now, breakerVars, limiterVars, ingestVars, proc>>

\* ------------------------------------------------------- graceful shutdown

\* No service process.  ran (the shutdown steps started), failed (what
\* threw), forced and ignored are history; timer is the time the forced
\* exit is due, or -1 when no timer is set; code is -1 while running.
NoProc ==
  [service |-> "none", consulClient |-> FALSE, grpcServer |-> FALSE,
   isShuttingDown |-> FALSE, at |-> "none", ran |-> <<>>,
   failed |-> "none", forced |-> FALSE, ignored |-> FALSE,
   clock |-> 0, timer |-> -1, code |-> -1]

shutdownTimeout_unset(p) == -1

\* setTimeout(() => process.exit(1), 30000): when the forced exit is due.
shutdownTimeout(p) == p.clock + ForceExitMs

\* The try block of gracefulShutdown, entered ("start") or resumed when the
\* awaited step `after` has resolved, up to the next await or to
\* process.exit.  The Elysia service does not import cleanupRateLimiter:
\* evaluating the name throws a ReferenceError, which the catch block turns
\* into clearTimeout and process.exit(1).
gracefulShutdown(p, after) ==
  LET steps == <<"consul", "grpc", "otel", "limiter">>
      from == IF after = "start" THEN 0
              ELSE CHOOSE i \in 1..Len(steps) : steps[i] = after
      present(i) == CASE i = 1 -> p.consulClient
                      [] i = 2 -> p.grpcServer
                      [] OTHER -> TRUE
      rest == {i \in (from + 1)..Len(steps) : present(i)}
      nxt == CHOOSE i \in rest : \A j \in rest : i <= j
  IN IF rest = {}
       THEN [p EXCEPT !.at = "exited", !.code = 0, !.timer = -1]
       ELSE IF steps[nxt] = "limiter" /\ p.service = "elysia"
         THEN [p EXCEPT !.at = "exited", !.code = 1, !.timer = -1,
                        !.failed = "ReferenceError"]
         ELSE [p EXCEPT !.at = steps[nxt], !.ran = Append(@, steps[nxt])]

\* SIGTERM, SIGINT or an uncaught exception: gracefulShutdown(signal).
Signal ==
  /\ proc.at # "exited"
  /\ proc' = IF proc.isShuttingDown
               THEN [proc EXCEPT !.ignored = TRUE]
               ELSE gracefulShutdown(
                      [proc EXCEPT !.isShuttingDown = TRUE,
                                   !.timer = shutdownTimeout(proc)],
                      "start")
  /\ UNCHANGED <<now, breakerVars, limiterVars, ingestVars, consul>>

\* The awaited step resolves, or it throws and the catch block exits.
StepSettles ==
  /\ proc.at \in {"consul", "grpc", "otel", "limiter"}
  /\ \E threw \in BOOLEAN :
       proc' = IF threw
                 THEN [proc EXCEPT !.at = "exited", !.code = 1, !.timer = -1,
                                   !.failed = proc.at]
                 ELSE gracefulShutdown(proc, proc.at)
  /\ UNCHANGED <<now, breakerVars, limiterVars, ingestVars, consul>>

\* The forced-exit timer fires: process.exit(1).
ForceExit ==
  /\ proc.at # "exited"
  /\ proc.timer >= 0 /\ proc.clock >= proc.timer
  /\ proc' = [proc EXCEPT !.at = "exited", !.code = 1, !.forced = TRUE]
  /\ UNCHANGED <<now, breakerVars, limiterVars, ingestVars, consul>>

\* Time passes during the shutdown, until the forced exit is due.
ShutdownWait ==
  /\ proc.at # "exited"
  /\ proc.timer >= 0 /\ proc.clock < proc.timer
  /\ proc' = [proc EXCEPT !.clock = @ + WaitMs]
  /\ UNCHANGED <<now, breakerVars, limiterVars, ingestVars, consul>>

\* ------------------------------------------------------------ specifications

vars == <<now, cb, pc, last, hist, pool,
          redisEnv, redisState, requests, zset, ttl, rp, res, lhist,
          http, buffer, imp, scan, consul, proc>>

\* The clock advances, up to `limit` (the history keeps only the admissions
\* still inside a window).
Elapse(d) ==
  /\ now' = now + d
  /\ lhist' = [lhist EXCEPT
       !.admitsAll = [k \in Keys |-> InWindow(@[k], now + d)],
       !.admitsSince = [k \in Keys |-> InWindow(@[k], now + d)]]
  /\ res' = NoRes
  /\ UNCHANGED <<cb, pc, last, hist, pool,
                 redisEnv, redisState, requests, zset, ttl, rp, ingestVars,
                 lifecycleVars>>

Tick(limit) == now < limit /\ Elapse(1)

\* The clock of the compared backends: milliseconds pass, or a second.
TickMs == now % MsPerSec < MaxClock /\ Elapse(1)
TickSec == now \div MsPerSec < MaxSeconds /\ Elapse(MsPerSec)

\* The breaker, the pool and the limiters after construction.
InitResilience ==
  /\ now = 0
  /\ cb = NewBreaker
  /\ pc = [c \in Callers |-> "idle"]
  /\ last = [op |-> "init", caller |-> "none", t |-> 0, from |-> Closed,
             invoked |-> FALSE, outcome |-> "none", tog |-> 0]
  /\ hist = [streak |-> 0, trial |-> 0, failAt |-> 0, trials |-> {}]
  /\ pool = [connected |-> FALSE, ready |-> FALSE]
  /\ requests = EmptyMap
  /\ zset = [k \in Keys |-> <<>>]
  /\ ttl = [k \in Keys |-> NoTtl]
  /\ rp = [p \in Procs |-> IdleProc]
  /\ res = NoRes
  /\ \E counting \in BOOLEAN :
       lhist = [admitsAll |-> [k \in Keys |-> <<>>],
                admitsSince |-> [k \in Keys |-> <<>>],
                denied |-> [k \in Keys |-> FALSE],
                scores |-> [k \in Keys |-> <<>>],
                twin |-> EmptyMap,
                twinRes |-> [key |-> "none", t |-> 0, allowed |-> FALSE,
                             remaining |-> 0, resetTime |-> 0],
                counting |-> counting]

\* No request has gone through a middleware and no file has come in.
Init ==
  /\ InitResilience
  /\ ~lhist.counting
  /\ consul = NoConsul /\ proc = NoProc
  /\ http = NoRequest
  /\ buffer = <<>>
  /\ imp = NoImport
  /\ scan = NoScan

\* REDIS_ENABLED is not 'true': RedisRateLimiter.enabled is false.
InitLocal == Init /\ redisEnv = FALSE /\ redisState = "disabled"

\* REDIS_ENABLED === 'true': the constructor has called initializeRedis,
\* which has not completed.
InitShared == Init /\ redisEnv = TRUE /\ redisState = "pending"

NextBreaker ==
  \/ Tick(MaxTime)
  \/ \E c \in Callers : ExecuteStart(c)
  \/ \E c \in Callers : FnSucceeds(c)
  \/ \E c \in Callers : FnFails(c)
  \/ Reset

SpecBreaker == InitLocal /\ [][NextBreaker]_vars

\* The breaker as GrpcClientPool uses it for one target.
NextPool ==
  \/ Tick(MaxTime)
  \/ \E c \in Callers : ProcessFile(c)
  \/ \E c \in Callers : FnSucceeds(c)
  \/ \E c \in Callers : FnFails(c)
  \/ \E c \in Callers : DetachedReturns(c)
  \/ HealthCheck
  \/ ChannelState
  \/ CloseConnection
  \/ ResetCircuitBreaker

SpecPool == InitLocal /\ [][NextPool]_vars

\* The service with the in-memory limiter (REDIS_ENABLED is not 'true').
NextLocal ==
  \/ Tick(MaxClock)
  \/ \E k \in Keys : LocalCheck(k)
  \/ Cleanup
  \/ \E k \in Keys : ResetRateLimit(k)

SpecLocal == InitLocal /\ [][NextLocal]_vars

\* The same with time passing and the interval timer of the sweep firing
\* again and again.
SpecLocalFair ==
  SpecLocal /\ WF_vars(Tick(MaxClock)) /\ WF_vars(Cleanup)

\* The service with the Redis limiter (REDIS_ENABLED === 'true'), its checks
\* serialized (one request is checked at a time) and all for one key; every
\* store operation may fail.
NextShared ==
  \/ Tick(MaxClock)
  \/ RedisInitOk
  \/ RedisInitFail
  \/ \E p \in Procs : SerialCheckStart(p, "k1")
  \/ \E p \in Procs : Zremrangebyscore(p)
  \/ \E p \in Procs : Zcard(p)
  \/ \E p \in Procs : Zadd(p)
  \/ \E p \in Procs : Expire(p)
  \/ \E p \in Procs : Zrange(p)
  \/ \E p \in Procs : RedisError(p)
  \/ Cleanup
  \/ ResetRateLimit("k1")

SpecShared == InitShared /\ [][NextShared]_vars

\* The same service, the admissions that its checks answer being counted.
InitCounted ==
  /\ InitResilience
  /\ lhist.counting
  /\ consul = NoConsul /\ proc = NoProc
  /\ redisEnv = TRUE /\ redisState = "pending"
  /\ http = NoRequest
  /\ buffer = <<>>
  /\ imp = NoImport
  /\ scan = NoScan

\* Checks, store failures and sweeps; no key is reset.
NextCounted ==
  \/ Tick(MaxClock)
  \/ RedisInitOk
  \/ RedisInitFail
  \/ \E p \in Procs : SerialCheckStart(p, "k1")
  \/ \E p \in Procs : Zremrangebyscore(p)
  \/ \E p \in Procs : Zcard(p)
  \/ \E p \in Procs : Zadd(p)
  \/ \E p \in Procs : Expire(p)
  \/ \E p \in Procs : Zrange(p)
  \/ \E p \in Procs : RedisError(p)
  \/ Cleanup

SpecCounted == InitCounted /\ [][NextCounted]_vars

\* The Redis limiter and an in-memory limiter side by side: the store is
\* connected before the first check, no store operation fails, the checks
\* are serialized and all for one key.
NextPair ==
  \/ TickMs
  \/ TickSec
  \/ RedisInitOk
  \/ PairedCheckStart("p1", "k1")
  \/ Zremrangebyscore("p1")
  \/ Zcard("p1")
  \/ Zadd("p1")
  \/ Expire("p1")
  \/ PairedZrange("p1")

SpecPair == InitShared /\ [][NextPair]_vars

\* The Redis limiter under concurrent requests: the store is connected
\* before the first check and no store operation fails; the store
\* operations of the checks in progress interleave in any order.  One
\* request stream checks either key, the other checks k1.
NextRace ==
  \/ Tick(MaxClock)
  \/ RedisInitOk
  \/ \E k \in Keys : ConcurrentCheckStart("p1", k)
  \/ ConcurrentCheckStart("p2", "k1")
  \/ \E p \in Procs : Zremrangebyscore(p)
  \/ \E p \in Procs : Zcard(p)
  \/ \E p \in Procs : LoggedZadd(p)
  \/ \E p \in Procs : Expire(p)
  \/ \E p \in Procs : Zrange(p)

SpecRace == InitShared /\ [][NextRace]_vars


\* The in-memory limiter with its sweep, beside one that is never swept.
NextSweep ==
  \/ Tick(MaxClock)
  \/ \E k \in Keys : TwinnedLocalCheck(k)
  \/ Cleanup

SpecSweep == InitLocal /\ [][NextSweep]_vars

\* One service with its rate-limit middlewares in front of a handler, on the
\* in-memory limiter; the requests to the Elysia service are all of one key.
InitHttp ==
  /\ InitResilience
  /\ ~lhist.counting
  /\ consul = NoConsul /\ proc = NoProc
  /\ redisEnv = FALSE /\ redisState = "disabled"
  /\ http \in {[NoRequest EXCEPT !.service = s] : s \in Services}
  /\ buffer = <<>>
  /\ imp = NoImport
  /\ scan = NoScan

NextHttp ==
  \/ Tick(MaxClock)
  \/ \E k \in Keys : HonoRateLimit(k)
  \/ ElysiaRateLimitPlugin("k1")
  \/ ElysiaRateLimitByUser("k1")
  \/ ElysiaRateLimitFileUploads("k1")
  \/ Cleanup

SpecHttp == InitHttp /\ [][NextHttp]_vars

\* The ingestion of one uploaded buffer.
InitImport ==
  /\ InitResilience
  /\ ~lhist.counting
  /\ consul = NoConsul /\ proc = NoProc
  /\ redisEnv = FALSE /\ redisState = "disabled"
  /\ http = NoRequest
  /\ buffer \in Buffers
  /\ imp = NoImport
  /\ scan = NoScan

NextImport ==
  \/ HandleFileImport
  \/ ProcessCsvFile

SpecImport == InitImport /\ [][NextImport]_vars

\* parseLine's loop on one line, every turn of it taken in the end.
InitScan ==
  /\ InitResilience
  /\ ~lhist.counting
  /\ consul = NoConsul /\ proc = NoProc
  /\ redisEnv = FALSE /\ redisState = "disabled"
  /\ http = NoRequest
  /\ buffer = <<>>
  /\ imp = NoImport
  /\ scan \in {[line |-> l, lastIndex |-> 0, values |-> <<>>, done |-> FALSE] :
                 l \in ScanLines}

NextScan ==
  \/ ExecMatch
  \/ ExecNull

SpecScan == InitScan /\ [][NextScan]_vars

SpecScanFair == SpecScan /\ WF_vars(NextScan)

\* A ConsulClient from its construction on: with config.enabled the
\* constructor has called initialize.
InitConsul ==
  /\ InitResilience
  /\ ~lhist.counting
  /\ redisEnv = FALSE /\ redisState = "disabled"
  /\ http = NoRequest /\ buffer = <<>> /\ imp = NoImport /\ scan = NoScan
  /\ proc = NoProc
  /\ \/ consul = NoConsul
     \/ \E threw \in BOOLEAN :
          consul = [initialize([NoConsul EXCEPT !.enabled = TRUE], threw)
                      EXCEPT !.failures = IF threw THEN 1 ELSE 0,
                             !.op = "constructed"]

NextConsul ==
  \/ LeaderCallback
  \/ RetryTimer
  \/ ConsulWait

SpecConsul == InitConsul /\ [][NextConsul]_vars

\* A serving process of either service, with or without a Consul client
\* and a gRPC server (both depend on the environment).
InitShutdown ==
  /\ InitResilience
  /\ ~lhist.counting
  /\ redisEnv = FALSE /\ redisState = "disabled"
  /\ http = NoRequest /\ buffer = <<>> /\ imp = NoImport /\ scan = NoScan
  /\ consul = NoConsul
  /\ \E s \in Services, c \in BOOLEAN, g \in BOOLEAN :
       proc = [NoProc EXCEPT !.service = s, !.consulClient = c,
                             !.grpcServer = g, !.at = "serving"]

NextShutdown ==
  \/ Signal
  \/ StepSettles
  \/ ForceExit
  \/ ShutdownWait

\* The event loop runs: time passes and a timer that is due fires.
SpecShutdown ==
  InitShutdown /\ [][NextShutdown]_vars
    /\ WF_vars(ShutdownWait) /\ WF_vars(ForceExit)

\* ------------------------------------------------- claims: circuit breaker

\* The step is the operation `name` (every operation flips last.tog).
StepIs(name) == last' # last /\ last'.op = name

\* C1: an execute call that starts while the breaker is Open and the clock
\* is before nextAttemptTime never invokes fn, fails with the circuit-open
\* error and leaves state, failureCount, successCount, lastFailureTime and
\* nextAttemptTime unchanged.
C1_FailFast ==
  [][(StepIs("execute") /\ cb.state = Open /\ now < cb.nextAttemptTime)
       => /\ ~last'.invoked
          /\ last'.outcome = "circuitOpen"
          /\ pc' = pc
          /\ cb' = cb]_vars

C1_Witness ==
  /\ last.op = "execute" /\ last.outcome = "circuitOpen" /\ last.from = Open
  /\ cb.state = Open /\ now < cb.nextAttemptTime

\* C2: from Closed with failureCount = 0, after failureThreshold consecutive
\* non-overlapping failing execute calls the breaker is Open with
\* nextAttemptTime = time of the last failure + recoveryTimeout; after fewer
\* it is still Closed; and the next execute made before nextAttemptTime does
\* not invoke fn.  hist.streak counts those failures (-1: no such run).
C2_ClosedToOpen ==
  [][/\ hist'.streak = FailureThreshold
          => /\ cb'.state = Open
             /\ cb'.nextAttemptTime = hist'.failAt + RecoveryTimeout
     /\ hist'.streak \in 0..(FailureThreshold - 1) => cb'.state = Closed
     /\ (hist.streak = FailureThreshold /\ StepIs("execute")
           /\ now < cb.nextAttemptTime)
          => ~last'.invoked /\ pc' = pc]_vars

C2_Witness ==
  /\ hist.streak = FailureThreshold
  /\ cb.state = Open
  /\ last.op = "execute" /\ last.outcome = "circuitOpen"

\* C3 (as claimed): a single fn failure recorded while the breaker is
\* HalfOpen leaves it Open with nextAttemptTime = now + recoveryTimeout.
C3_HalfOpenFailureOpens ==
  [][(StepIs("fnFail") /\ cb.state = HalfOpen)
       => /\ cb'.state = Open
          /\ cb'.nextAttemptTime = now + RecoveryTimeout]_vars

\* C4 (as claimed): the breaker goes from HalfOpen to Closed exactly when
\* halfOpenSuccessThreshold consecutive successes have been recorded since it
\* entered HalfOpen, no failure between them (hist.trial counts them).
C4_HalfOpenClosesAfterConsecutive ==
  [][(cb.state = HalfOpen /\ ~StepIs("reset"))
       => (cb'.state = Closed <=> hist'.trial >= HalfOpenSuccessThreshold)]_vars

\* C5: the breaker leaves Open only by reset() or by an execute call made
\* when now >= nextAttemptTime, which sets HalfOpen, zeroes successCount and
\* invokes fn; the passage of time alone changes nothing of the breaker.
C5_LazyRecovery ==
  [][/\ (cb.state = Open /\ cb'.state # Open)
          => \/ StepIs("reset")
             \/ /\ StepIs("execute")
                /\ now >= cb.nextAttemptTime
                /\ cb'.state = HalfOpen
                /\ cb'.successCount = 0
                /\ last'.invoked
                /\ pc'[last'.caller] = "fn"
     /\ now' # now => cb' = cb]_vars

C5_Witness ==
  /\ last.op = "execute" /\ last.from = Open /\ last.invoked
  /\ cb.state = HalfOpen /\ cb.successCount = 0
  /\ now >= cb.nextAttemptTime

\* ---------------------------------------------------- claims: rate limiter

\* The step completes a check of key k.
CheckOf(k) == res' # res /\ res'.op = "check" /\ res'.key = k

\* Instants at which a window may end.
Instants == 0..(MaxClock + WindowMs)

\* The history keeps, at clock value `now`, the admissions newer than
\* now - windowMs.  The windows (t - windowMs, t] with t >= now see all of
\* their admissions in it; those with t < now were complete, and were
\* examined, in the states where the clock was t.

\* C6 (as claimed): for every key and instant t, at most maxRequests checks
\* of the key are admitted with admission time in (t - windowMs, t], after
\* any sequence of check, reset and sweep operations; and a check is admitted
\* exactly while fewer than maxRequests admissions are in its window (in a
\* burst of N + 1 checks from an empty state, the first N).
C6_QuotaAnyHistory ==
  [][/\ \A k \in Keys, t \in Instants :
          Len(InWindow(lhist'.admitsAll[k], t)) <= MaxRequests
     /\ \A k \in Keys :
          CheckOf(k) =>
            (res'.allowed <=> Len(InWindow(lhist.admitsAll[k], now)) < MaxRequests)
    ]_vars

\* C6 (amended): the same, counting the admissions made since the key's
\* last reset.
C6_QuotaSinceReset ==
  [][/\ \A k \in Keys, t \in Instants :
          Len(InWindow(lhist'.admitsSince[k], t)) <= MaxRequests
     /\ \A k \in Keys :
          CheckOf(k) =>
            (res'.allowed <=> Len(InWindow(lhist.admitsSince[k], now)) < MaxRequests)
    ]_vars

\* The (N+1)-th check of a burst is denied, on a key that was reset before.
C6_Witness ==
  /\ res.op = "check" /\ ~res.allowed
  /\ Len(InWindow(lhist.admitsSince[res.key], now)) = MaxRequests
  /\ Len(InWindow(lhist.admitsAll[res.key], now)) > MaxRequests

\* C7: a check of a key made at least windowMs after the key's most recent
\* admitted timestamp is admitted (maxRequests >= 1), and more generally a
\* check is admitted when fewer than maxRequests admitted timestamps are
\* strictly newer than now - windowMs.
C7_Readmission ==
  [][\A k \in Keys :
       CheckOf(k) =>
         /\ (MaxRequests >= 1
               /\ \A i \in 1..Len(lhist.admitsAll[k]) :
                     now - lhist.admitsAll[k][i] >= WindowMs)
              => res'.allowed
         /\ Cardinality({i \in 1..Len(lhist.admitsAll[k]) :
                           lhist.admitsAll[k][i] > now - WindowMs}) < MaxRequests
              => res'.allowed]_vars

\* A key that was denied is admitted again, every earlier admission being
\* at least windowMs old.
C7_Witness ==
  /\ res.op = "check" /\ res.allowed /\ res.afterDenial
  /\ now >= WindowMs
  /\ lhist.admitsAll[res.key] = <<now>>

\* C8 (as claimed): the remaining of every check is
\* max(0, maxRequests - c), c the number of in-window timestamps held for
\* the key after the decision (the one just appended included).
C8_RemainingAfterDecision ==
  res.op = "check" =>
    res.remaining =
      Max(0, MaxRequests -
             (IF res.via = "redis" THEN Len(members(res.key))
              ELSE Len(getOrEmpty(requests, res.key))))

\* C9 (as claimed): a check that returns allowed = false has added no
\* timestamp for the key to any store, also when a shared-store operation
\* failed part-way through it.
C9_DenyWithoutAppend ==
  (res.op = "check" /\ ~res.allowed) => ~res.appended

\* C10: a check on the Redis limiter returns a decision and never raises;
\* when the store is not there or one of its operations fails, what it
\* returns is the in-memory limiter's decision for the key at that moment.
C10_FailOpen ==
  [][\A k \in Keys :
       CheckOf(k) =>
         /\ ~res'.raised
         /\ res'.via \in {"redis", "fallback"}
         /\ res'.via = "fallback" =>
              LET d == inMemoryCheckLimit(requests, k, now)
              IN /\ res'.allowed = d.allowed
                 /\ res'.remaining = d.remaining
                 /\ res'.resetTime = d.resetTime
                 /\ requests' = d.requests
         /\ (redisState # "ready" \/ rp[res'.proc].pc = "idle")
              => res'.via = "fallback"]_vars

\* The last store operation of a check failed after its timestamp was added,
\* and the check still returned a decision.
C10_Witness ==
  /\ res.op = "check" /\ res.via = "fallback" /\ res.failed = "zrange"
  /\ ~res.raised /\ res.allowed
  /\ redisState = "ready"

\* The Redis limiter's last answer and the in-memory limiter's answer to the
\* same (key, time) are the same.
SameDecision ==
  /\ lhist.twinRes.key = res.key
  /\ res.allowed = lhist.twinRes.allowed
  /\ res.remaining = lhist.twinRes.remaining
  /\ res.resetTime = lhist.twinRes.resetTime

C12_BoundedOvershoot ==
  [][/\ \A k \in Keys, t \in Instants :
          Len(InWindow(lhist'.scores[k], t))
            <= MaxRequests + (Cardinality(Procs) - 1)
     /\ \A p \in Procs :
          (rp[p].pc # "idle" /\ rp'[p] # rp[p])
            => /\ \A k \in Keys \ {rp[p].key} :
                    zset'[k] = zset[k] /\ ttl'[k] = ttl[k]
               /\ rp[p].pc = "zcard"
                    => (rp'[p].allowed
                          <=> Len(members(rp[p].key)) < MaxRequests)
    ]_vars

\* ------------------------------------------ claims: breaker, second part

\* C13 (as claimed): while the target has a connection in the pool, every
\* processFile / processFileStream call is gated by that connection's
\* breaker, whatever the channel's connectivity state: the call starts from
\* the counters the earlier calls left (the only change an execute call
\* makes before fn is the Open -> HalfOpen transition).
C13_BreakerPersists ==
  [][(pool.connected /\ StepIs("execute")) => cb' = attemptRecovery(cb, now)]_vars

\* C14 (as claimed): while the breaker is HalfOpen, the execute calls
\* admitted in HalfOpen and still awaiting fn (hist.trials) are fewer than
\* the callers there are: a bound that does not grow with their number.
C14_BoundedTrials ==
  cb.state = HalfOpen => Cardinality(hist.trials) < Cardinality(Callers)

\* C15 (as claimed): once the breaker is Open, the failure of a call that
\* was in flight changes neither nextAttemptTime nor the state.
C15_NoDoubleOpen ==
  [][(StepIs("fnFail") /\ cb.state = Open)
       => /\ cb'.state = Open
          /\ cb'.nextAttemptTime = cb.nextAttemptTime]_vars

\* C16: when fn, invoked by execute, fails, the caller gets fn's error and
\* one failure is recorded (failureCount + 1, lastFailureTime = now); when
\* fn succeeds, the caller gets fn's result and failureCount becomes 0.
\* The circuit-open error is only given to calls that did not invoke fn.
C16_ErrorPropagation ==
  [][/\ StepIs("fnFail")
          => /\ last'.invoked /\ last'.outcome = "fnError"
             /\ cb'.failureCount = cb.failureCount + 1
             /\ cb'.lastFailureTime = now
             /\ pc'[last'.caller] = "idle"
     /\ StepIs("fnOk")
          => /\ last'.invoked /\ last'.outcome = "result"
             /\ cb'.failureCount = 0
             /\ pc'[last'.caller] = "idle"
     /\ (last' # last /\ last'.outcome = "circuitOpen") => ~last'.invoked
    ]_vars

\* fn failed for a call that was admitted while another call's failures
\* had already been counted: the caller has fn's error and the breaker has
\* opened on it.
C16_Witness ==
  /\ last.op = "fnFail" /\ last.outcome = "fnError"
  /\ cb.failureCount = FailureThreshold /\ cb.lastFailureTime = now
  /\ cb.state = Open /\ now > 0

\* C17: reset() leaves state = Closed, failureCount = 0, successCount = 0
\* from every state, and the execute call that follows it invokes fn;
\* getStats reports the current state, failureCount, successCount and
\* lastFailureTime.
C17_Reset ==
  [][/\ StepIs("reset")
          => /\ cb'.state = Closed
             /\ cb'.failureCount = 0
             /\ cb'.successCount = 0
     /\ (last.op = "reset" /\ StepIs("execute"))
          => /\ last'.invoked
             /\ pc'[last'.caller] = "fn"
     /\ getStats(cb').state = cb'.state
     /\ getStats(cb').failureCount = cb'.failureCount
     /\ getStats(cb').successCount = cb'.successCount
     /\ getStats(cb').lastFailureTime = cb'.lastFailureTime
     /\ DOMAIN getStats(cb') =
          {"state", "failureCount", "successCount", "lastFailureTime"}
    ]_vars

\* An execute call invokes fn right after a reset() made while the breaker
\* was Open and the clock before nextAttemptTime.
C17_Witness ==
  /\ last.op = "execute" /\ last.invoked /\ last.from = Closed
  /\ cb.failureCount = 0 /\ cb.successCount = 0
  /\ cb.state = Closed
  /\ now < cb.nextAttemptTime

\* ----------------------------------------- claims: rate limiter, second part

\* The reset time that the timestamps ts, held for a key after a check made
\* at time t, call for.
Oldest(ts) ==
  CHOOSE x \in {ts[i] : i \in 1..Len(ts)} : \A i \in 1..Len(ts) : x <= ts[i]
DueResetTime(ts, t) ==
  IF ts # <<>> THEN Oldest(ts) + WindowMs ELSE t + WindowMs

\* C18: the resetTime of every check, admitted or denied, is the oldest
\* timestamp held for the key after the check + windowMs, and the time of
\* the check + windowMs when none is held: for the Redis limiter (the set in
\* the store) and for the in-memory limiter (its list).
C18_ResetTime ==
  res.op = "check" =>
    /\ res.via = "redis" =>
         /\ res.resetTime = DueResetTime(members(res.key), lhist.twinRes.t)
         /\ lhist.twinRes.resetTime =
              DueResetTime(getOrEmpty(lhist.twin, res.key), lhist.twinRes.t)
    /\ res.via \in {"local", "fallback"} =>
         res.resetTime = DueResetTime(getOrEmpty(requests, res.key), now)

\* A denied check reports the time at which the oldest entry, older than
\* the check, ages out.
C18_Witness ==
  /\ res.op = "check" /\ res.via = "redis" /\ ~res.allowed
  /\ Len(members(res.key)) = MaxRequests
  /\ res.resetTime = members(res.key)[1] + WindowMs
  /\ res.resetTime < now + WindowMs
  /\ lhist.twinRes.resetTime = res.resetTime

\* The step is resetRateLimit(k).
ResetOf(k) == res' # res /\ res'.op = "reset" /\ res'.key = k

\* C19 (as claimed): after resetRateLimit(key) the key has no timestamp in
\* the in-memory map nor in the shared store; a check of the key that is
\* made next (not one that was already in progress) is admitted with the
\* full quota; and the timestamps held for every other key are as before.
C19_PerKeyReset ==
  [][\A k \in Keys :
       /\ ResetOf(k)
            => /\ k \notin DOMAIN requests'
               /\ zset'[k] = <<>>
               /\ \A j \in Keys \ {k} :
                    /\ getOrEmpty(requests', j) = getOrEmpty(requests, j)
                    /\ (j \in DOMAIN requests') = (j \in DOMAIN requests)
                    /\ zset'[j] = zset[j] /\ ttl'[j] = ttl[j]
       /\ (res.op = "reset" /\ res.key = k /\ CheckOf(k)
             /\ (res'.via = "local" \/ res'.failed = "unavailable"))
            => res'.allowed /\ res'.remaining = MaxRequests
    ]_vars

\* C20: right after every sweep no key is left in the in-memory map whose
\* timestamps are all out of the window; and a key whose timestamps are old
\* enough to age out before the clock's bound is, unless it is checked
\* again, eventually not in the map.
C20_KeyLifecycle ==
  /\ [](res.op = "cleanup"
        => \A k \in DOMAIN requests :
             \E i \in 1..Len(requests[k]) : requests[k][i] > now - WindowMs)
  /\ \A k \in Keys :
       (/\ k \in DOMAIN requests
        /\ \A i \in 1..Len(requests[k]) : requests[k][i] <= MaxClock - WindowMs)
         ~> (k \notin DOMAIN requests \/ (res.op = "check" /\ res.key = k))

\* A sweep has run, and a key that had used up its quota (its last check
\* was denied, and it was not reset since) is not in the map.
C20_Witness ==
  /\ res.op = "cleanup"
  /\ \E k \in Keys : lhist.denied[k] /\ k \notin DOMAIN requests
  /\ now >= WindowMs

\* ------------------------------------------- claims: rate-limit middleware

\* C21: whenever the limiter denies a request, the middleware answers 429
\* and the downstream handler is not invoked for that request.
C21_DeniedNeverReachesHandler ==
  http.mw # "none" /\ ~http.allowed =>
    http.status = TooManyRequests /\ ~http.next

\* A request has just left a middleware, checked under key k.
Through(k) == http' # http /\ http'.key = k

\* C28: a middleware built with maxRequests = OptMaxRequests admits at most
\* that many requests of a key inside one window and denies the next one;
\* the X-RateLimit-Limit it reports is that limit.
C28_ConfiguredQuotaEnforced ==
  [][\A k \in Keys :
       Through(k) =>
         /\ http'.limit = OptMaxRequests
         /\ http'.allowed => Len(lhist'.admitsAll[k]) <= http'.limit
         /\ Len(lhist.admitsAll[k]) >= http'.limit => ~http'.allowed]_vars

\* ------------------------------------------------ claims: ingestion pipeline

RECURSIVE SumOfCounts(_)
SumOfCounts(ss) ==
  IF ss = <<>> THEN 0 ELSE Head(ss).count + SumOfCounts(Tail(ss))

\* processCsvFile has run on the buffer and returned a ParseResult.
Returned == imp.invoked = "processCsvFile" /\ imp.outcome = "result"

\* C22: rowCount = successCount + errorCount, every parsed row is counted
\* once, as a success or as an error, and the counts of the summaries add
\* up to successCount.
C22_RowAccounting ==
  Returned =>
    /\ imp.rowCount = imp.successCount + imp.errorCount
    /\ imp.rowCount = Len(imp.rows)
    /\ imp.successCount =
         Cardinality({i \in 1..Len(imp.rows) : CSV_ROW_SCHEMA(imp.rows[i])})
    /\ imp.errorCount =
         Cardinality({i \in 1..Len(imp.rows) : ~CSV_ROW_SCHEMA(imp.rows[i])})
    /\ SumOfCounts(imp.summaries) = imp.successCount

C22_Witness ==
  /\ Returned
  /\ imp.successCount = 1 /\ imp.errorCount = 1
  /\ Len(imp.summaries) = 1

\* The (region, country) pairs of the validated rows.
PairsOf(valid) == {<<valid[i].region, valid[i].country>> : i \in 1..Len(valid)}

\* C23: there is exactly one summary per distinct (region, country) pair of
\* the validated rows, and it counts the rows of that pair and no others,
\* whatever characters region and country hold.
C23_OneSummaryPerPair ==
  Returned =>
    /\ Len(imp.summaries) = Cardinality(PairsOf(imp.valid))
    /\ \A pair \in PairsOf(imp.valid) :
         \E i \in 1..Len(imp.summaries) :
           /\ imp.summaries[i].region = pair[1]
           /\ imp.summaries[i].country = pair[2]
           /\ imp.summaries[i].count =
                Cardinality({j \in 1..Len(imp.valid) :
                  /\ imp.valid[j].region = pair[1]
                  /\ imp.valid[j].country = pair[2]})

RECURSIVE SumOfAmounts(_, _)
SumOfAmounts(rows, key) ==
  IF rows = <<>> THEN 0
  ELSE (IF Head(rows).region \o <<":">> \o Head(rows).country = key
        THEN Head(rows).amount ELSE 0)
       + SumOfAmounts(Tail(rows), key)

FailsValidation(row) ==
  \/ get(row, Key.region).s = <<>>
  \/ get(row, Key.country).s = <<>>
  \/ get(row, Key.amount).t # "number"
  \/ ~get(row, Key.amount).finite

\* C25: a row that fails validation is counted in errorCount and is in no
\* summary, and the call still returns a result; when every row fails the
\* result has successCount = 0, errorCount = rowCount and no summaries.
C25_RowErrorsNeverAbort ==
  /\ imp.invoked = "processCsvFile" /\ imp.outcome = "error"
       => lines(buffer) = <<>>
  /\ Returned =>
       LET failing == {i \in 1..Len(imp.rows) : FailsValidation(imp.rows[i])}
       IN /\ imp.errorCount = Cardinality(failing)
          /\ SumOfCounts(imp.summaries) = imp.rowCount - Cardinality(failing)
          /\ \A i \in 1..Len(imp.summaries) :
               imp.summaries[i].region # <<>> /\ imp.summaries[i].country # <<>>
          /\ Cardinality(failing) = imp.rowCount =>
               /\ imp.successCount = 0
               /\ imp.errorCount = imp.rowCount
               /\ imp.summaries = <<>>

C25_Witness ==
  /\ Returned
  /\ imp.rowCount = 2 /\ imp.errorCount = 2
  /\ \E i \in 1..2 : get(imp.rows[i], Key.region).s = <<>>
  /\ \E i \in 1..2 : ~get(imp.rows[i], Key.amount).finite

\* C26: an input without a usable data row (nothing, blank lines only, a
\* header alone) makes processCsvFile fail with the empty-input error.
C26_EmptyInputFails ==
  /\ imp.invoked = "processCsvFile"
  /\ imp.outcome # "hang"
  /\ lines(buffer) = <<>> \/ imp.rowCount = 0
  => /\ imp.outcome = "error"
     /\ imp.error = "Failed to parse CSV: CSV file is empty"

\* C27: every summary has count >= 1, amountSum >= 0 and amountAvg >= 0.
C27_SummaryRanges ==
  Returned =>
    \A i \in 1..Len(imp.summaries) :
      /\ imp.summaries[i].count >= 1
      /\ imp.summaries[i].amountSum >= 0
      /\ imp.summaries[i].amountAvg >= 0

\* C29: parseLine's loop ends on every line.
C29_ParseLineTerminates == <>scan.done

\* The file kind that the bytes call for: a spreadsheet container when at
\* least MagicLen bytes open with one of the two signatures, else delimited
\* text when a comma and a line feed are among the first TextProbe bytes.
KindOf(buf) ==
  LET probe == SubSeq(buf, 1, IF Len(buf) < TextProbe THEN Len(buf)
                                                      ELSE TextProbe)
  IN IF /\ Len(buf) >= MagicLen
        /\ \/ SubSeq(buf, 1, Len(ZipSignature)) = ZipSignature
           \/ SubSeq(buf, 1, Len(Ole2Signature)) = Ole2Signature
     THEN "xlsx"
     ELSE IF "," \in Range(probe) /\ "\n" \in Range(probe) THEN "csv"
     ELSE "unknown"

\* C30: detectFileType returns the kind that the bytes call for, and the
\* import handler hands no buffer of unknown kind to the pipeline.
C30_FileKind ==
  imp.via = "handleFileImport" =>
    /\ imp.detectedType = KindOf(buffer)
    /\ imp.detectedType = "unknown" => imp.invoked = "none"

\* ------------------------------------------ claims: breaker, invariants

\* C34: while the breaker is Closed, failureCount is below failureThreshold,
\* whatever the interleaving of overlapping execute calls and reset().
C34_ClosedBelowThreshold ==
  cb.state = Closed => cb.failureCount < FailureThreshold

\* The breaker is Closed one failure short of opening, a call in flight.
C34_Witness ==
  /\ cb.state = Closed
  /\ cb.failureCount = FailureThreshold - 1
  /\ \E c \in Callers : pc[c] = "fn"

\* C35: while the breaker is HalfOpen, successCount is between 0 and
\* halfOpenSuccessThreshold - 1; it is 0 when the breaker enters HalfOpen,
\* whatever successes were recorded before, and from then on only a success
\* recorded in HalfOpen raises it, by one.
C35_HalfOpenSuccessCount ==
  [][/\ cb'.state = HalfOpen
          => cb'.successCount \in 0..(HalfOpenSuccessThreshold - 1)
     /\ (cb.state # HalfOpen /\ cb'.state = HalfOpen)
          => cb'.successCount = 0
     /\ (cb.state = HalfOpen /\ cb'.state = HalfOpen)
          => \/ cb'.successCount = cb.successCount
             \/ /\ StepIs("fnOk")
                /\ cb'.successCount = cb.successCount + 1]_vars

\* The breaker has just entered HalfOpen with successes on record from
\* before.
C35_Witness ==
  /\ cb.state = HalfOpen /\ cb.successCount = 0
  /\ last.op = "execute" /\ last.from = Open
  /\ cb.failureCount = 0

\* ------------------------------------------- claims: rate limiter, third part

\* C36: every key present in the in-memory map holds a list that is not
\* empty, has at most maxRequests timestamps and is in non-decreasing order,
\* so that its first element is the oldest, after any sequence of checks,
\* resets and sweeps.
C36_WellFormedMap ==
  \A k \in DOMAIN requests :
    /\ requests[k] # <<>>
    /\ Len(requests[k]) <= MaxRequests
    /\ \A i, j \in 1..Len(requests[k]) : i <= j => requests[k][i] <= requests[k][j]
    /\ requests[k][1] = Oldest(requests[k])

\* A sweep has left one key with a full list of timestamps taken at
\* different times and has dropped the other key.
C36_Witness ==
  /\ res.op = "cleanup"
  /\ DOMAIN requests = {"k1"}
  /\ Len(requests["k1"]) = MaxRequests
  /\ requests["k1"][1] < requests["k1"][MaxRequests]
  /\ lhist.admitsAll["k2"] = <<>> /\ now > WindowMs

\* C37 (as claimed): the resetTime of a check is later than the time of
\* the check and at most windowMs later, and the retry-after sent with a
\* denial is at least 1 and at most ceil(windowMs / 1000).
C37_RetryAfterAhead ==
  http.mw # "none" =>
    /\ http.resetIn \in 1..WindowMs
    /\ ~http.allowed => http.retryAfter \in 1..Ceil(WindowMs, MsPerSec)

\* C37, amended: the resetTime of a check is later than the time of the
\* check and at most windowMs later; the retry-after sent with a denial is
\* at most ceil(windowMs / 1000), and it is at least 1 exactly when the
\* clock, read again for the response, is still before resetTime.
C37_RetryAfterFromLaterClock ==
  http.mw # "none" =>
    /\ http.resetIn \in 1..WindowMs
    /\ ~http.allowed =>
         /\ http.retryAfter <= Ceil(WindowMs, MsPerSec)
         /\ http.retryAfter >= 1 <=> http.delay < http.resetIn
         /\ http.delay = 0 => http.retryAfter >= 1

\* A denial whose oldest timestamp aged out between the check and the
\* response: retry-after is 0.
C37_Witness ==
  /\ http.mw = "rateLimitMiddleware" /\ ~http.allowed
  /\ http.resetIn = 1 /\ http.delay = 1
  /\ http.retryAfter = 0

\* C38: the sweep does not show in any later check: a limiter that is
\* swept at any time between checks and one that is never swept, given the
\* same checks, return the same allowed, remaining and resetTime.
C38_SweepTransparent ==
  res.op = "check" =>
    /\ lhist.twinRes.key = res.key
    /\ res.allowed = lhist.twinRes.allowed
    /\ res.remaining = lhist.twinRes.remaining
    /\ res.resetTime = lhist.twinRes.resetTime

\* A check has been denied after sweeps that dropped the other key, which
\* the limiter that is never swept still holds.
C38_Witness ==
  /\ res.op = "check" /\ res.key = "k1" /\ ~res.allowed
  /\ "k2" \in DOMAIN lhist.twin
  /\ "k2" \notin DOMAIN requests

C40_HealthCheckLeavesBreaker ==
  [][StepIs("healthCheck") =>
       /\ last'.invoked
       /\ cb'.state = cb.state
       /\ cb'.failureCount = cb.failureCount
       /\ cb'.successCount = cb.successCount
       /\ cb'.nextAttemptTime = cb.nextAttemptTime]_vars

\* ---------------------------------------------------- claims: life cycle

\* C33 as stated: reconnectAttempts stays in 0..maxReconnectAttempts; a
\* failed attempt schedules at most one retry, due after
\* min(1000 * 2^reconnectAttempts, 30000) ms; once 5 attempts in a row have
\* failed no retry is scheduled or pending; a successful leader check sets
\* the counter to 0.
C33_NoRetryAfterFive ==
  [][ /\ consul'.reconnectAttempts \in 0..maxReconnectAttempts
      /\ Len(consul'.timers) <= Len(consul.timers) + 1
      /\ Len(consul'.timers) > Len(consul.timers) =>
           /\ consul'.failures = consul.failures + 1
           /\ consul'.timers[Len(consul'.timers)] = consul.clock +
                (IF BackoffBase * 2^(consul'.reconnectAttempts) < BackoffCap
                   THEN BackoffBase * 2^(consul'.reconnectAttempts)
                   ELSE BackoffCap)
      /\ consul'.failures >= maxReconnectAttempts => consul'.timers = <<>>
      /\ consul'.op = "leaderOk" => consul'.reconnectAttempts = 0 ]_vars

\* C33, amended: reconnectAttempts stays in 0..maxReconnectAttempts; a
\* failed attempt schedules at most one retry, due after
\* min(1000 * 2^reconnectAttempts, 30000) ms with the counter already
\* incremented (2000, 4000, 8000, 16000, 30000); each of the first 5
\* failures in a row schedules a retry, the 6th (the first attempt and 5
\* retries have failed) schedules none and nothing happens after it; a
\* successful leader check sets the counter to 0.
C33_BoundedReconnect ==
  [][ /\ consul'.reconnectAttempts \in 0..maxReconnectAttempts
      /\ Len(consul'.timers) <= Len(consul.timers) + 1
      /\ Len(consul'.timers) > Len(consul.timers) =>
           /\ consul'.failures = consul.failures + 1
           /\ consul'.timers[Len(consul'.timers)] = consul.clock +
                (IF BackoffBase * 2^(consul'.reconnectAttempts) < BackoffCap
                   THEN BackoffBase * 2^(consul'.reconnectAttempts)
                   ELSE BackoffCap)
      /\ consul'.failures = consul.failures + 1 =>
           IF consul'.failures <= maxReconnectAttempts
             THEN /\ Len(consul'.timers) = 1
                  /\ consul'.reconnectAttempts = consul'.failures
             ELSE consul'.timers = <<>> /\ consul'.inflight = 0
      /\ consul.failures > maxReconnectAttempts => consul' = consul
      /\ consul'.op = "leaderOk" => consul'.reconnectAttempts = 0 ]_vars

C33_Witness ==
  /\ consul.failures = maxReconnectAttempts + 1
  /\ consul.reconnectAttempts = maxReconnectAttempts
  /\ consul.timers = <<>> /\ consul.inflight = 0
  /\ consul.op = "leaderErr"

\* C31: the first signal runs Consul deregistration, gRPC stop, telemetry
\* flush and rate-limiter cleanup (those the service has) once each in that
\* order, and a shutdown in which no step failed and which was not forced
\* exits with code 0.
C31_CleanShutdownExitsZero ==
  (/\ proc.at = "exited"
   /\ ~proc.forced
   /\ proc.failed \notin {"consul", "grpc", "otel", "limiter"})
  => /\ proc.code = 0
     /\ proc.ran = (IF proc.consulClient THEN <<"consul">> ELSE <<>>) \o
                   (IF proc.grpcServer THEN <<"grpc">> ELSE <<>>) \o
                   <<"otel", "limiter">>

\* C32: a shutdown that has started ends in the exit of the process; the
\* exit code is 1 when a step threw and 1 when the timer forced the exit,
\* which it does no earlier than ForceExitMs after the start; nothing
\* happens after the exit.
C32_ShutdownExits ==
  /\ proc.isShuttingDown ~> proc.at = "exited"
  /\ [](proc.at = "exited" =>
          /\ proc.code \in {0, 1}
          /\ proc.failed # "none" => proc.code = 1
          /\ proc.forced => proc.code = 1 /\ proc.clock >= ForceExitMs)
  /\ [][proc.at = "exited" => proc' = proc]_vars

C32_Witness ==
  /\ proc.at = "exited" /\ proc.forced /\ proc.code = 1
  /\ proc.failed = "none"
  /\ proc.ran = <<"consul", "grpc">>

====
